---------------------------- MODULE Spec2Model ----------------------------
(***************************************************************************)
(* The offline dictionary build of LingoView (scripts/dictionaries/build.ts,*)
(* kept here as src/unnamed/part_005) as a state machine.                  *)
(*                                                                         *)
(* Strings are sequences of characters; a character is a one-character     *)
(* TLA+ string for ASCII and "U+XXXX" for anything else.  An optional      *)
(* value (a TypeScript `x?: T`) is the empty sequence when absent and the  *)
(* one-element sequence <<x>> when present.                                *)
(***************************************************************************)
EXTENDS Integers, Sequences, FiniteSets, TLC

None == <<>>
Some(x) == <<x>>

(***************************************************************************)
(* Characters                                                              *)
(***************************************************************************)
LowerSeq ==
  <<"a","b","c","d","e","f","g","h","i","j","k","l","m",
    "n","o","p","q","r","s","t","u","v","w","x","y","z">>
UpperSeq ==
  <<"A","B","C","D","E","F","G","H","I","J","K","L","M",
    "N","O","P","Q","R","S","T","U","V","W","X","Y","Z">>
LowerAZ == { LowerSeq[i] : i \in DOMAIN LowerSeq }

\* String.prototype.toLowerCase on one character.
ToLowerChar(c) ==
  IF \E i \in DOMAIN UpperSeq : UpperSeq[i] = c
    THEN LowerSeq[CHOOSE i \in DOMAIN UpperSeq : UpperSeq[i] = c]
    ELSE c

\* The characters the regular-expression class \s and String.prototype.trim
\* treat as white space (space, tab, no-break space, ideographic space).
SpaceChars == {" ", "\t", "U+00A0", "U+3000"}
IsSpace(c) == c \in SpaceChars

\* The characters of the Unicode script Han that occur in the model's data.
HanChars ==
  {"U+4F60", "U+597D", "U+60A8", "U+97F3", "U+4E50", "U+4F5C", "U+54C1",
   "U+52C9", "U+5F37", "U+5B66", "U+4E60", "U+7528", "U+529F", "U+540D",
   "U+8A5E", "U+8C22", "U+975E", "U+5E38", "U+611F", "U+52D5", "U+5B78",
   "U+7FD2", "U+52A8", "U+8BCD", "U+672C", "U+9375", "U+7121", "U+65E0"}

(***************************************************************************)
(* Strings                                                                 *)
(***************************************************************************)
ToLowerCase(s) == [i \in DOMAIN s |-> ToLowerChar(s[i])]

RECURSIVE TrimStart(_)
TrimStart(s) ==
  IF s # <<>> /\ IsSpace(Head(s)) THEN TrimStart(Tail(s)) ELSE s

RECURSIVE TrimEnd(_)
TrimEnd(s) ==
  IF s # <<>> /\ IsSpace(s[Len(s)]) THEN TrimEnd(SubSeq(s, 1, Len(s) - 1)) ELSE s

\* String.prototype.trim
Trim(s) == TrimEnd(TrimStart(s))

\* s.replace(/[^...]+/g, '') : delete every character outside Keep.
RECURSIVE StripOutside(_, _)
StripOutside(Keep, s) ==
  IF s = <<>> THEN <<>>
  ELSE IF Head(s) \in Keep THEN <<Head(s)>> \o StripOutside(Keep, Tail(s))
  ELSE StripOutside(Keep, Tail(s))

\* s.replace(/[^...]+/g, ' ') : every maximal run of characters outside Keep
\* becomes one space.
RECURSIVE BlankOutside(_, _)
BlankOutside(Keep, s) ==
  IF s = <<>> THEN <<>>
  ELSE IF Head(s) \in Keep THEN <<Head(s)>> \o BlankOutside(Keep, Tail(s))
  ELSE IF Len(s) > 1 /\ s[2] \notin Keep THEN BlankOutside(Keep, Tail(s))
  ELSE <<" ">> \o BlankOutside(Keep, Tail(s))

\* s.replace(/\s+/g, ' ')
CollapseSpaces(s) == BlankOutside({c \in {s[i] : i \in DOMAIN s} : ~IsSpace(c)}, s)

\* Array.from(new Set(list)): the first occurrence of each element, in order.
RECURSIVE Dedup(_)
Dedup(list) ==
  IF list = <<>> THEN <<>>
  ELSE LET init == Dedup(SubSeq(list, 1, Len(list) - 1))
           last == list[Len(list)]
       IN IF \E i \in DOMAIN init : init[i] = last THEN init ELSE Append(init, last)

Range(list) == { list[i] : i \in DOMAIN list }

RECURSIVE Flatten(_)
Flatten(lists) ==
  IF lists = <<>> THEN <<>> ELSE Head(lists) \o Flatten(Tail(lists))

\* Array.prototype.filter(Boolean) on a list of strings: drop the empty ones.
RECURSIVE FilterNonEmpty(_)
FilterNonEmpty(list) ==
  IF list = <<>> THEN <<>>
  ELSE IF Head(list) = <<>> THEN FilterNonEmpty(Tail(list))
  ELSE <<Head(list)>> \o FilterNonEmpty(Tail(list))

\* s.split(sep) where every character of Seps is a one-character separator:
\* the pieces between separators, empty pieces included.
RECURSIVE SplitOn(_, _)
SplitOn(Seps, s) ==
  IF \A i \in DOMAIN s : s[i] \notin Seps THEN <<s>>
  ELSE LET k == CHOOSE i \in DOMAIN s :
                  s[i] \in Seps /\ \A j \in 1..(i - 1) : s[j] \notin Seps
       IN <<SubSeq(s, 1, k - 1)>> \o SplitOn(Seps, SubSeq(s, k + 1, Len(s)))

(***************************************************************************)
(* DictionaryEntry (types.ts) and the sample fixtures.  `metadata` is an   *)
(* open bag no code of the build reads; it is not carried in the model.    *)
(***************************************************************************)
Languages == {"en-zh", "ja-zh", "en", "ja", "zh"}

DEFAULT_LANGUAGES == <<"en-zh", "ja-zh", "en", "ja", "zh">>

Entry(word, reading, pronunciation, forms, pos, definitions, source) ==
  [word |-> word, reading |-> reading, pronunciation |-> pronunciation,
   forms |-> forms, pos |-> pos, definitions |-> definitions, source |-> source]

SAMPLE_DICTIONARIES ==
  [l \in Languages |->
     CASE l = "en-zh" ->
            << Entry(<<"h","e","l","l","o">>, None, None,
                     Some(<< <<"h","e","l","l","o">>, <<"h","e","l","l","o","s">> >>),
                     Some(<< <<"i","n","t","e","r","j","e","c","t","i","o","n">> >>),
                     << <<"U+4F60","U+597D">>, <<"U+60A8","U+597D">> >>,
                     "Sample (Kaikki Wiktionary)"),
               Entry(<<"m","u","s","i","c">>, None, None,
                     Some(<< <<"m","u","s","i","c">> >>),
                     Some(<< <<"n","o","u","n">> >>),
                     << <<"U+97F3","U+4E50">>, <<"U+97F3","U+4E50","U+4F5C","U+54C1">> >>,
                     "Sample (Kaikki Wiktionary)") >>
       [] l = "ja-zh" ->
            << Entry(<<"U+52C9","U+5F37">>,
                     Some(<<"U+3079","U+3093","U+304D","U+3087","U+3046">>), None,
                     None,
                     Some(<< <<"U+540D","U+8A5E">> >>),
                     << <<"U+5B66","U+4E60">>, <<"U+7528","U+529F">> >>,
                     "Sample (JMdict U+4E2D U+6587 U+4E49)"),
               Entry(<<"U+3042","U+308A","U+304C","U+3068","U+3046">>,
                     Some(<<"U+3042","U+308A","U+304C","U+3068","U+3046">>), None,
                     None,
                     Some(<< <<"U+611F","U+52D5","U+8A5E">> >>),
                     << <<"U+8C22","U+8C22">>, <<"U+975E","U+5E38","U+611F","U+8C22">> >>,
                     "Sample (JMdict U+4E2D U+6587 U+4E49)") >>
       [] l = "en" ->
            << Entry(<<"s","t","u","d","y">>, None, None,
                     Some(<< <<"s","t","u","d","i","e","s">>,
                             <<"s","t","u","d","i","e","d">>,
                             <<"s","t","u","d","y","i","n","g">> >>),
                     Some(<< <<"v","e","r","b">>, <<"n","o","u","n">> >>),
                     << <<"T","o"," ","d","e","v","o","t","e"," ","t","i","m","e"," ","a","n",
                          "d"," ","a","t","t","e","n","t","i","o","n",
                          " ","t","o"," ","a","c","q","u","i","r","i",
                          "n","g"," ","k","n","o","w","l","e","d","g",
                          "e",".">>,
                        <<"T","o"," ","e","x","a","m","i","n","e"," ","c","l","o","s","e","l",
                          "y"," ","i","n"," ","o","r","d","e","r"," ",
                          "t","o"," ","o","b","s","e","r","v","e"," ",
                          "o","r"," ","r","e","a","d",".">> >>,
                     "Sample (Kaikki Wiktionary)") >>
       [] l = "ja" ->
            << Entry(<<"U+5B66","U+3076">>,
                     Some(<<"U+307E","U+306A","U+3076">>), None,
                     None,
                     Some(<< <<"U+52D5","U+8A5E">> >>),
                     << <<"t","o"," ","l","e","a","r","n">>,
                        <<"t","o"," ","s","t","u","d","y">> >>,
                     "Sample (JMdict)") >>
       [] l = "zh" ->
            << Entry(<<"U+5B66","U+4E60">>,
                     Some(<<"U+5B66","U+4E60">>),
                     Some(<<"x","u","U+00E9","x","U+00ED">>),
                     Some(<< <<"U+5B78","U+7FD2">> >>),
                     Some(<< <<"U+52A8","U+8BCD">> >>),
                     << <<"s","t","u","d","y",";"," ","l","e","a","r","n">> >>,
                     "Sample (CC-CEDICT stub)") >>]

(***************************************************************************)
(* Normalisation and the row payload                                       *)
(***************************************************************************)
\* A normalisation that deletes the characters outside the class where the
\* code puts one space for each run of them.
normalizeEnglishKey_Strips(value) ==
  LET lowercase == ToLowerCase(value)
      words == CollapseSpaces(Trim(
                 StripOutside(LowerAZ \cup SpaceChars \cup {"'", "-"}, lowercase)))
      compact == StripOutside(LowerAZ \cup {"'", "-"}, lowercase)
  IN Dedup(FilterNonEmpty(<<words, compact>>))


\* normalizeEnglishKey: the keys under which an English phrase is looked up.
normalizeEnglishKey(value) ==
  LET lowercase == ToLowerCase(value)
      words == CollapseSpaces(Trim(
                 BlankOutside(LowerAZ \cup SpaceChars \cup {"'", "-"}, lowercase)))
      compact == StripOutside(LowerAZ \cup {"'", "-"}, lowercase)
  IN Dedup(FilterNonEmpty(<<words, compact>>))

\* normaliseForLanguage: the persistence key of a word.
normaliseForLanguage(language, value) ==
  IF value = <<>> THEN <<>>
  ELSE LET trimmed == Trim(value)
       IN IF trimmed = <<>> THEN <<>>
          ELSE IF language \in {"en", "en-zh"}
            THEN StripOutside(LowerAZ \cup {"-", "'"}, ToLowerCase(trimmed))
          ELSE trimmed

\* JSON.stringify of one string: quoted, with quote, backslash and the
\* control characters escaped.
JsonEscape(c) ==
  CASE c = "\"" -> <<"\\", "\"">>
    [] c = "\\" -> <<"\\", "\\">>
    [] c = "\t" -> <<"\\", "t">>
    [] OTHER -> <<c>>

JsonStringifyString(s) ==
  <<"\"">> \o Flatten([i \in DOMAIN s |-> JsonEscape(s[i])]) \o <<"\"">>

\* JSON.stringify of a list of strings.
RECURSIVE JsonJoin(_)
JsonJoin(list) ==
  IF list = <<>> THEN <<>>
  ELSE IF Len(list) = 1 THEN JsonStringifyString(list[1])
  ELSE JsonStringifyString(list[1]) \o <<",">> \o JsonJoin(Tail(list))

JsonStringify(list) == <<"[">> \o JsonJoin(list) \o <<"]">>

\* JSON.parse of the text of a list of strings, as a reader of the store
\* decodes a column: the character an escape stands for, ...
JsonUnescape(c) == IF c = "t" THEN "\t" ELSE c

\* ... the string that ends at the first quote not behind a backslash, with
\* what follows it, ...
RECURSIVE JsonParseString(_, _)
JsonParseString(text, value) ==
  IF Head(text) = "\"" THEN [value |-> value, rest |-> Tail(text)]
  ELSE IF Head(text) = "\\"
    THEN JsonParseString(Tail(Tail(text)), Append(value, JsonUnescape(text[2])))
  ELSE JsonParseString(Tail(text), Append(value, Head(text)))

\* ... and the elements up to the closing bracket.
RECURSIVE JsonParseItems(_)
JsonParseItems(text) ==
  IF Head(text) = "]" THEN <<>>
  ELSE IF Head(text) = "," THEN JsonParseItems(Tail(text))
  ELSE LET string == JsonParseString(Tail(text), <<>>)
       IN <<string.value>> \o JsonParseItems(string.rest)

JsonParse(text) == JsonParseItems(Tail(text))


\* A row payload whose forms and pos columns are filled from each other's field.
toRowPayload_SwapsColumns(language, entry) ==
  [normalized |-> normaliseForLanguage(language, entry.word),
   term |-> entry.word,
   reading |-> IF entry.reading # None /\ entry.reading[1] # <<>>
                 THEN Some(Trim(entry.reading[1])) ELSE None,
   pronunciation |-> entry.pronunciation,
   forms |-> IF entry.pos # None /\ entry.pos[1] # <<>>
               THEN Some(JsonStringify(entry.pos[1])) ELSE None,
   pos |-> IF entry.forms # None /\ entry.forms[1] # <<>>
             THEN Some(JsonStringify(entry.forms[1])) ELSE None,
   definitions |-> JsonStringify(entry.definitions),
   source |-> Some(entry.source)]


\* toRowPayload: the row of one entry.  A column that is SQL NULL is None.
toRowPayload(language, entry) ==
  [normalized |-> normaliseForLanguage(language, entry.word),
   term |-> entry.word,
   reading |-> IF entry.reading # None /\ entry.reading[1] # <<>>
                 THEN Some(Trim(entry.reading[1])) ELSE None,
   pronunciation |-> entry.pronunciation,
   forms |-> IF entry.forms # None /\ entry.forms[1] # <<>>
               THEN Some(JsonStringify(entry.forms[1])) ELSE None,
   pos |-> IF entry.pos # None /\ entry.pos[1] # <<>>
             THEN Some(JsonStringify(entry.pos[1])) ELSE None,
   definitions |-> JsonStringify(entry.definitions),
   source |-> Some(entry.source)]

\* A filter on the persistence key alone: an entry that has only a reading
\* is dropped.
RECURSIVE FilterRows_KeyOnly(_)
FilterRows_KeyOnly(rows) ==
  IF rows = <<>> THEN <<>>
  ELSE LET row == Head(rows)
       IN IF row.normalized # <<>>
            THEN <<row>> \o FilterRows_KeyOnly(Tail(rows))
            ELSE FilterRows_KeyOnly(Tail(rows))


\* The rows writeSqlite inserts: the payloads with a key or a reading.
RECURSIVE FilterRows(_)
FilterRows(rows) ==
  IF rows = <<>> THEN <<>>
  ELSE LET row == Head(rows)
       IN IF row.normalized # <<>> \/ (row.reading # None /\ row.reading[1] # <<>>)
            THEN <<row>> \o FilterRows(Tail(rows))
            ELSE FilterRows(Tail(rows))

Payloads(language, entries) ==
  FilterRows([i \in DOMAIN entries |-> toRowPayload(language, entries[i])])

(***************************************************************************)
(* Translation Maps: a Map<string, string[]> is a function from its keys   *)
(* to their value lists.                                                   *)
(***************************************************************************)
EmptyMap == [k \in {} |-> <<>>]

MapGetOr(map, key, default) == IF key \in DOMAIN map THEN map[key] ELSE default

MapSet(map, key, values) ==
  [k \in (DOMAIN map) \cup {key} |-> IF k = key THEN values ELSE map[k]]

\* An addToMap that stores only the values the key did not have before.
RECURSIVE Without(_, _)
Without(values, existing) ==
  IF values = <<>> THEN <<>>
  ELSE (IF Head(values) \in Range(existing) THEN <<>> ELSE <<Head(values)>>)
         \o Without(Tail(values), existing)

addToMap_OnlyNew(map, key, values) ==
  IF key = <<>> THEN map
  ELSE MapSet(map, key, Without(values, MapGetOr(map, key, <<>>)))


\* An addToMap that leaves a key alone once the map has it.
addToMap_KeepsExisting(map, key, values) ==
  IF key = <<>> \/ key \in DOMAIN map THEN map
  ELSE MapSet(map, key, Dedup(values))


\* addToMap: union `values` into the list under `key`; an empty key is ignored.
addToMap(map, key, values) ==
  IF key = <<>> THEN map
  ELSE MapSet(map, key, Dedup(MapGetOr(map, key, <<>>) \o values))

\* loadJmdict's merge: a copy of `first`, then every key of `second` added to it.
RECURSIVE MergeInto(_, _, _)
MergeInto(combined, second, keys) ==
  IF keys = {} THEN combined
  ELSE LET key == CHOOSE k \in keys : TRUE
       IN MergeInto(addToMap(combined, key, second[key]), second, keys \ {key})

MergeMaps(first, second) == MergeInto(first, second, DOMAIN second)

(***************************************************************************)
(* Parsed JSON / XML values.  A leaf of a parsed document is a string or   *)
(* something else (a number, an object, undefined, ...); only strings are  *)
(* read by the parsers.                                                    *)
(***************************************************************************)
JStr(s) == [t |-> "string", v |-> s]
\* A number leaf keeps its digits: String(value) reads them.
JNum(digits) == [t |-> "number", v |-> digits]
JUndef == [t |-> "undefined", v |-> <<>>]
IsStr(j) == j.t = "string"

\* The trimmed, non-empty strings among a list of leaves, in order.
RECURSIVE TrimmedStrings(_)
TrimmedStrings(leaves) ==
  IF leaves = <<>> THEN <<>>
  ELSE IF IsStr(Head(leaves)) /\ Trim(Head(leaves).v) # <<>>
    THEN <<Trim(Head(leaves).v)>> \o TrimmedStrings(Tail(leaves))
  ELSE TrimmedStrings(Tail(leaves))

\* list.join(sep)
RECURSIVE Join(_, _)
Join(list, sep) ==
  IF list = <<>> THEN <<>>
  ELSE IF Len(list) = 1 THEN list[1]
  ELSE list[1] \o sep \o Join(Tail(list), sep)

\* /needle/i.test(s) for a literal needle given in lower case.
ContainsIgnoreCase(s, needle) ==
  \E i \in 1..(Len(s) - Len(needle) + 1) :
    ToLowerCase(SubSeq(s, i, i + Len(needle) - 1)) = needle

(***************************************************************************)
(* The sense-dump parser (parseKaikki)                                     *)
(***************************************************************************)
VariantSeparators == {"/", "U+FF0F", "U+3001", "U+FF1B", ";"}

\* splitChineseVariants
splitChineseVariants(value) ==
  IF value = <<>> THEN <<>>
  ELSE FilterNonEmpty([i \in DOMAIN SplitOn(VariantSeparators, value) |->
                         Trim(SplitOn(VariantSeparators, value)[i])])

\* containsHan
containsHan(value) == \E i \in DOMAIN value : value[i] \in HanChars

\* collectGlosses: a sense carries `glosses`, else `raw_glosses`, else nothing.
RECURSIVE collectGlosses(_)
collectGlosses(senses) ==
  IF senses = <<>> THEN <<>>
  ELSE LET sense == Head(senses)
           list == IF sense.glosses # None THEN sense.glosses[1]
                   ELSE IF sense.raw_glosses # None THEN sense.raw_glosses[1]
                   ELSE <<>>
       IN TrimmedStrings(list) \o collectGlosses(Tail(senses))

\* collectPronunciations: the distinct IPA strings joined by ", ".
collectPronunciations(sounds) ==
  LET pronunciations == Dedup(TrimmedStrings(sounds))
  IN IF pronunciations = <<>> THEN None ELSE Some(Join(pronunciations, <<",", " ">>))

KAIKKI_SOURCE == "Kaikki (Wiktionary, English edition)"

\* A translation filter without the Mandarin test: every translation whose
\* word holds a Han character contributes its variants.
TranslationVariants_AnyLanguage(translation) ==
  IF ~translation.object THEN <<>>
  ELSE LET rawWord == IF IsStr(translation.word) THEN translation.word.v ELSE <<>>
       IN IF rawWord = <<>> \/ ~containsHan(rawWord) THEN <<>>
          ELSE splitChineseVariants(rawWord)


\* One translation of a record: the variants it contributes (empty when the
\* translation is skipped) and the definition of each.
TranslationVariants(translation) ==
  IF ~translation.object THEN <<>>
  ELSE LET rawWord == IF IsStr(translation.word) THEN translation.word.v ELSE <<>>
           langCode == IF IsStr(translation.lang_code) THEN translation.lang_code.v ELSE <<>>
           lang == IF IsStr(translation.lang) THEN translation.lang.v ELSE <<>>
           isMandarin == langCode = <<"c","m","n">>
                         \/ ContainsIgnoreCase(lang, <<"m","a","n","d","a","r","i","n">>)
       IN IF rawWord = <<>> \/ ~containsHan(rawWord) THEN <<>>
          ELSE IF ~isMandarin THEN <<>>
          ELSE splitChineseVariants(rawWord)

TranslationDefinitions(translation) ==
  LET variants == TranslationVariants(translation)
      sense == IF translation.object /\ IsStr(translation.sense)
                 THEN Trim(translation.sense.v) ELSE <<>>
  IN [i \in DOMAIN variants |->
        IF sense # <<>> THEN variants[i] \o <<" ", "U+2014", " ">> \o sense
                        ELSE variants[i]]

\* Is the line skipped before anything is emitted?
KaikkiSkipped(line) ==
  \/ line.kind # "record"
  \/ line.lang # "English"
  \/ ~IsStr(line.word)
  \/ Trim(line.word.v) = <<>>

KaikkiForms(line) == Dedup(<<Trim(line.word.v)>> \o TrimmedStrings(line.forms))

KaikkiPos(line) ==
  IF IsStr(line.pos) /\ Trim(line.pos.v) # <<>> THEN Some(<<Trim(line.pos.v)>>) ELSE None

\* The English-gloss entry emitted for every kept record, glosses or not.
KaikkiEnEntry_NoGlossCheck(line) ==
  << Entry(Trim(line.word.v), None, collectPronunciations(line.sounds),
           Some(KaikkiForms(line)), KaikkiPos(line), collectGlosses(line.senses),
           "Kaikki (Wiktionary, English edition) (English gloss)") >>


\* The English-gloss entry of a kept record (at most one).
KaikkiEnEntry(line) ==
  LET englishGlosses == collectGlosses(line.senses)
  IN IF englishGlosses # <<>>
       THEN << Entry(Trim(line.word.v), None, collectPronunciations(line.sounds),
                     Some(KaikkiForms(line)), KaikkiPos(line), englishGlosses,
                     "Kaikki (Wiktionary, English edition) (English gloss)") >>
       ELSE <<>>

KaikkiChineseDefinitions(line) ==
  Dedup(Flatten([i \in DOMAIN line.translations |->
                   TranslationDefinitions(line.translations[i])]))

KaikkiChineseWords(line) ==
  Dedup(Flatten([i \in DOMAIN line.translations |->
                   TranslationVariants(line.translations[i])]))

\* The cross-lingual entry of a kept record (at most one).
KaikkiEnZhEntry(line) ==
  IF KaikkiChineseDefinitions(line) = <<>> THEN <<>>
  ELSE << Entry(Trim(line.word.v), None, collectPronunciations(line.sounds),
                Some(KaikkiForms(line)), KaikkiPos(line),
                KaikkiChineseDefinitions(line), KAIKKI_SOURCE) >>

\* The keys of every surface form, in order, without repetition.
KaikkiMapKeys(line) ==
  Dedup(Flatten([i \in DOMAIN KaikkiForms(line) |->
                   normalizeEnglishKey(KaikkiForms(line)[i])]))

RECURSIVE UnionUnderKeys(_, _, _)
UnionUnderKeys(map, keys, values) ==
  IF keys = <<>> THEN map
  ELSE UnionUnderKeys(
         MapSet(map, Head(keys), Dedup(MapGetOr(map, Head(keys), <<>>) \o values)),
         Tail(keys), values)

KaikkiMapUpdate(map, line) ==
  IF KaikkiChineseDefinitions(line) = <<>> \/ KaikkiChineseWords(line) = <<>> THEN map
  ELSE UnionUnderKeys(map, KaikkiMapKeys(line), KaikkiChineseWords(line))

EmptyKaikkiData ==
  [source |-> KAIKKI_SOURCE, enZhEntries |-> <<>>, enEntries |-> <<>>,
   translationMap |-> EmptyMap]

RECURSIVE KaikkiLines(_, _)
KaikkiLines(data, lines) ==
  IF lines = <<>> THEN data
  ELSE LET line == Head(lines)
       IN IF KaikkiSkipped(line) THEN KaikkiLines(data, Tail(lines))
          ELSE KaikkiLines(
                 [source |-> data.source,
                  enZhEntries |-> data.enZhEntries \o KaikkiEnZhEntry(line),
                  enEntries |-> data.enEntries \o KaikkiEnEntry(line),
                  translationMap |-> KaikkiMapUpdate(data.translationMap, line)],
                 Tail(lines))

\* parseKaikki on the lines of an archive.  A line holding the JSON text
\* `null` parses, and reading `entry.lang` of it throws out of the parser.
KaikkiThrows(lines) == \E i \in DOMAIN lines : lines[i].kind = "null"

parseKaikki(lines) == KaikkiLines(EmptyKaikkiData, lines)

(***************************************************************************)
(* The flat-text parser (parseCedict)                                      *)
(***************************************************************************)
\* The length of the longest prefix of s without white space: (\S+).
RECURSIVE NonSpaceRun(_)
NonSpaceRun(s) ==
  IF s = <<>> \/ IsSpace(Head(s)) THEN 0 ELSE 1 + NonSpaceRun(Tail(s))

\* The length of the longest prefix of s made of white space: \s+.
RECURSIVE SpaceRun(_)
SpaceRun(s) ==
  IF s = <<>> \/ ~IsSpace(Head(s)) THEN 0 ELSE 1 + SpaceRun(Tail(s))

Drop(s, n) == SubSeq(s, n + 1, Len(s))

\* Does `rest` (what follows a closing bracket) match \s+\/(.+)\/$ ?
CedictTailMatches(rest) ==
  LET sp == SpaceRun(rest)
      defs == Drop(rest, sp)
  IN sp >= 1 /\ Len(defs) >= 3 /\ defs[1] = "/" /\ defs[Len(defs)] = "/"

\* The positions in `bracketed` (which starts after "[") of a "]" that the
\* lazy group (.+?) can stop before: at least one character inside, and
\* the rest of the line matching.
CedictClosers(bracketed) ==
  { j \in 2..Len(bracketed) :
      bracketed[j] = "]" /\ CedictTailMatches(Drop(bracketed, j)) }

\* trimmed.match(/^(\S+)\s+(\S+)\s+\[(.+?)\]\s+\/(.+)\/$/): the groups, or
\* None when the line does not match.
CedictMatch(trimmed) ==
  LET n1 == NonSpaceRun(trimmed)
      r1 == Drop(trimmed, n1)
      s1 == SpaceRun(r1)
      r2 == Drop(r1, s1)
      n2 == NonSpaceRun(r2)
      r3 == Drop(r2, n2)
      s2 == SpaceRun(r3)
      r4 == Drop(r3, s2)
  IN IF n1 >= 1 /\ s1 >= 1 /\ n2 >= 1 /\ s2 >= 1 /\ r4 # <<>> /\ r4[1] = "["
        /\ CedictClosers(Tail(r4)) # {}
       THEN LET inner == Tail(r4)
                j == CHOOSE k \in CedictClosers(inner) :
                       \A m \in CedictClosers(inner) : k <= m
                rest == Drop(inner, j)
                defs == Drop(rest, SpaceRun(rest))
            IN Some([traditional |-> SubSeq(trimmed, 1, n1),
                     simplified |-> SubSeq(r2, 1, n2),
                     pinyin |-> SubSeq(inner, 1, j - 1),
                     defsRaw |-> SubSeq(defs, 2, Len(defs) - 1)])
       ELSE None

TrimAll(list) == [i \in DOMAIN list |-> Trim(list[i])]

\* definition.replace(/\([^)]*\)/g, ' ')
RECURSIVE RemoveParens(_)
RemoveParens(s) ==
  IF s = <<>> THEN <<>>
  ELSE IF Head(s) = "(" /\ \E j \in 2..Len(s) : s[j] = ")"
    THEN LET j == CHOOSE k \in 2..Len(s) :
                    s[k] = ")" /\ \A m \in 2..(k - 1) : s[m] # ")"
         IN <<" ">> \o RemoveParens(Drop(s, j))
  ELSE <<Head(s)>> \o RemoveParens(Tail(s))

\* clause.replace(/^to\s+/, '')
StripInfinitive(clause) ==
  IF Len(clause) >= 3 /\ clause[1] = "t" /\ clause[2] = "o" /\ IsSpace(clause[3])
    THEN Drop(clause, 2 + SpaceRun(Drop(clause, 2)))
    ELSE clause

\* Lookup keys taken from the clauses as they are, a leading "to " included.
CedictDefinitionKeys_KeepsInfinitive(definition) ==
  LET withoutParens == Trim(CollapseSpaces(RemoveParens(definition)))
      clauses == FilterNonEmpty(TrimAll(SplitOn({",", ";"}, withoutParens)))
  IN Flatten([i \in DOMAIN clauses |-> normalizeEnglishKey(clauses[i])])


\* The lookup keys one definition is registered under, in order.
CedictDefinitionKeys(definition) ==
  LET withoutParens == Trim(CollapseSpaces(RemoveParens(definition)))
      clauses == FilterNonEmpty(TrimAll(SplitOn({",", ";"}, withoutParens)))
  IN Flatten([i \in DOMAIN clauses |-> normalizeEnglishKey(StripInfinitive(clauses[i]))])

RECURSIVE AddUnderKeys(_, _, _)
AddUnderKeys(map, keys, values) ==
  IF keys = <<>> THEN map
  ELSE AddUnderKeys(addToMap(map, Head(keys), values), Tail(keys), values)

CEDICT_SOURCE == "CC-CEDICT (MDBG export)"

\* The definitions of a matched line: split on "/", trimmed, empties dropped.
CedictDefinitions(match) == FilterNonEmpty(TrimAll(SplitOn({"/"}, match.defsRaw)))

CedictForms(match) ==
  IF match.simplified = match.traditional
    THEN <<match.simplified>>
    ELSE <<match.simplified, match.traditional>>

\* Is the line skipped (blank, comment, no match, no definition)?
CedictSkipped(line) ==
  LET trimmed == Trim(line)
  IN \/ trimmed = <<>>
     \/ trimmed[1] = "#"
     \/ CedictMatch(trimmed) = None
     \/ CedictDefinitions(CedictMatch(trimmed)[1]) = <<>>

CedictEntry(match) ==
  Entry(match.simplified, Some(match.simplified), Some(match.pinyin),
        Some(CedictForms(match)), None, CedictDefinitions(match), CEDICT_SOURCE)

CedictMapUpdate(map, match) ==
  AddUnderKeys(map,
    Flatten([i \in DOMAIN CedictDefinitions(match) |->
               CedictDefinitionKeys(CedictDefinitions(match)[i])]),
    Dedup(CedictForms(match)))

EmptyCedictData ==
  [source |-> CEDICT_SOURCE, entries |-> <<>>, translationMap |-> EmptyMap]

RECURSIVE CedictLines(_, _)
CedictLines(data, lines) ==
  IF lines = <<>> THEN data
  ELSE IF CedictSkipped(Head(lines)) THEN CedictLines(data, Tail(lines))
  ELSE LET match == CedictMatch(Trim(Head(lines)))[1]
       IN CedictLines(
            [source |-> data.source,
             entries |-> Append(data.entries, CedictEntry(match)),
             translationMap |-> CedictMapUpdate(data.translationMap, match)],
            Tail(lines))

\* parseCedict on the lines of the decompressed text.
parseCedict(lines) == CedictLines(EmptyCedictData, lines)

(***************************************************************************)
(* The Gloss Translator and the bilingual-XML parser (parseJmdict)         *)
(***************************************************************************)
STOP_WORDS ==
  {<<"t","o">>,
   <<"t","h","e">>,
   <<"a">>,
   <<"a","n">>,
   <<"o","f">>,
   <<"f","o","r">>,
   <<"o","n">>,
   <<"i","n">>,
   <<"a","t">>,
   <<"w","i","t","h">>,
   <<"a","n","d">>,
   <<"o","r">>,
   <<"b","y">>,
   <<"b","e">>,
   <<"i","s">>,
   <<"a","r","e">>}

\* The code -> label table, as a list of <<code, label>> pairs.
JM_POS_MAP ==
  << <<<<"n">>,
       <<"n","o","u","n">>>>,
     <<<<"a","d","j","-","i">>,
       <<"i","-","a","d","j","e","c","t","i","v","e">>>>,
     <<<<"a","d","j","-","n","a">>,
       <<"n","a","-","a","d","j","e","c","t","i","v","e">>>>,
     <<<<"a","d","j","-","n","o">>,
       <<"n","o","-","a","d","j","e","c","t","i","v","e">>>>,
     <<<<"a","d","v">>,
       <<"a","d","v","e","r","b">>>>,
     <<<<"v","s">>,
       <<"s","u","r","u","-","v","e","r","b">>>>,
     <<<<"v","t">>,
       <<"t","r","a","n","s","i","t","i","v","e"," ","v","e","r","b">>>>,
     <<<<"v","i">>,
       <<"i","n","t","r","a","n","s","i","t","i","v","e"," ","v","e","r","b">>>>,
     <<<<"e","x","p">>,
       <<"e","x","p","r","e","s","s","i","o","n">>>> >>

\* decodeJmPos: strip a leading "&" and a trailing ";", then look the code up.
decodeJmPos(posValue) ==
  LET a == IF posValue # <<>> /\ Head(posValue) = "&" THEN Tail(posValue) ELSE posValue
      trimmed == IF a # <<>> /\ a[Len(a)] = ";" THEN SubSeq(a, 1, Len(a) - 1) ELSE a
  IN IF \E i \in DOMAIN JM_POS_MAP : JM_POS_MAP[i][1] = trimmed
       THEN JM_POS_MAP[CHOOSE i \in DOMAIN JM_POS_MAP : JM_POS_MAP[i][1] = trimmed][2]
       ELSE trimmed

\* The values found under the keys that are in the map, in key order.
RECURSIVE LookupAll(_, _)
LookupAll(map, keys) ==
  IF keys = <<>> THEN <<>>
  ELSE MapGetOr(map, Head(keys), <<>>) \o LookupAll(map, Tail(keys))

\* A token is looked up as it is and, when that misses, with every character
\* outside [a-z'-] removed.
TokenMatches(map, token) ==
  IF token \in DOMAIN map THEN map[token]
  ELSE MapGetOr(map, StripOutside(LowerAZ \cup {"'", "-"}, token), <<>>)

\* A token filter that drops only the tokens of length one: stop words are
\* looked up.
RECURSIVE KeepTokens_KeepsStopWords(_)
KeepTokens_KeepsStopWords(tokens) ==
  IF tokens = <<>> THEN <<>>
  ELSE IF Len(Head(tokens)) > 1
    THEN <<Head(tokens)>> \o KeepTokens_KeepsStopWords(Tail(tokens))
  ELSE KeepTokens_KeepsStopWords(Tail(tokens))


RECURSIVE KeepTokens(_)
KeepTokens(tokens) ==
  IF tokens = <<>> THEN <<>>
  ELSE IF Len(Head(tokens)) > 1 /\ Head(tokens) \notin STOP_WORDS
    THEN <<Head(tokens)>> \o KeepTokens(Tail(tokens))
  ELSE KeepTokens(Tail(tokens))

\* translateGlossToChinese
translateGlossToChinese(gloss, translationMap) ==
  LET variants == normalizeEnglishKey(gloss)
      direct == Dedup(LookupAll(translationMap, variants))
      tokens == KeepTokens(TrimAll(Flatten(
                  [i \in DOMAIN variants |-> SplitOn({" "}, variants[i])])))
  IN IF direct # <<>> THEN direct
     ELSE Dedup(Flatten([i \in DOMAIN tokens |-> TokenMatches(translationMap, tokens[i])]))

\* String(value): a string is itself, a number its digits, a missing value
\* the text "undefined".
StringOf(leaf) ==
  IF leaf.t = "undefined" THEN <<"u","n","d","e","f","i","n","e","d">> ELSE leaf.v

FirstOr(list, default) == IF list = <<>> THEN default ELSE list[1]

\* kanjiElements[0]?.keb?.[0] ?? readingElements[0]?.reb?.[0] ?? ''
JmPrimaryLeaf(entry) ==
  LET keb == FirstOr(FirstOr(entry.k_ele, <<>>), JUndef)
      reb == FirstOr(FirstOr(entry.r_ele, <<>>), JUndef)
  IN IF keb.t # "undefined" THEN keb
     ELSE IF reb.t # "undefined" THEN reb
     ELSE JStr(<<>>)

\* Calling .trim() on a leaf that is not a string throws.
JmEntryThrows(entry) == ~IsStr(JmPrimaryLeaf(entry))

JmPrimaryWord(entry) == Trim(JmPrimaryLeaf(entry).v)

JmForms(entry) ==
  LET leaves == Flatten(entry.k_ele) \o Flatten(entry.r_ele)
  IN Dedup([i \in DOMAIN leaves |-> Trim(StringOf(leaves[i]))])

\* The first reading: the first element of each reading element, trimmed,
\* empties dropped.
JmReading(entry) ==
  LET readings == FilterNonEmpty(
        [i \in DOMAIN entry.r_ele |-> Trim(StringOf(FirstOr(entry.r_ele[i], JUndef)))])
  IN IF readings = <<>> THEN None ELSE Some(readings[1])

JmPos(entry) ==
  LET codes == Flatten([i \in DOMAIN entry.sense |-> entry.sense[i].pos])
      posSet == Dedup(FilterNonEmpty(
                  [i \in DOMAIN codes |-> decodeJmPos(Trim(StringOf(codes[i])))]))
  IN IF posSet = <<>> THEN None ELSE Some(posSet)

\* A gloss is a string (English) or an element with text and a language
\* attribute; `lang` is "" when the attribute is absent.
GlossBucket(gloss) ==
  IF gloss.t = "string" THEN (IF Trim(gloss.v) # <<>> THEN "english" ELSE "none")
  ELSE IF gloss.t = "object" THEN
    (IF Trim(gloss.v) = <<>> THEN "none"
     ELSE IF gloss.lang = "" \/ gloss.lang = "eng" THEN "english"
     ELSE IF gloss.lang \in {"zh", "zho", "cmn"} THEN "chinese"
     ELSE "none")
  ELSE "none"

RECURSIVE GlossesOf(_, _)
GlossesOf(glosses, bucket) ==
  IF glosses = <<>> THEN <<>>
  ELSE IF GlossBucket(Head(glosses)) = bucket
    THEN <<Trim(Head(glosses).v)>> \o GlossesOf(Tail(glosses), bucket)
  ELSE GlossesOf(Tail(glosses), bucket)

JmGlosses(entry, bucket) ==
  GlossesOf(Flatten([i \in DOMAIN entry.sense |-> entry.sense[i].gloss]), bucket)

\* Cross-lingual definitions that add the translations of the English
\* glosses to the native glosses.
JmAggregatedChinese_AlwaysTranslates(entry, translationMap) ==
  LET chineseGlosses == Dedup(JmGlosses(entry, "chinese"))
      englishGlosses == JmGlosses(entry, "english")
  IN Dedup(chineseGlosses \o
           Flatten([i \in DOMAIN englishGlosses |->
                      translateGlossToChinese(englishGlosses[i], translationMap)]))


\* The cross-lingual definitions: the native glosses, else the translations
\* of every English gloss.
JmAggregatedChinese(entry, translationMap) ==
  LET chineseGlosses == Dedup(JmGlosses(entry, "chinese"))
      englishGlosses == JmGlosses(entry, "english")
  IN IF chineseGlosses # <<>> THEN chineseGlosses
     ELSE Dedup(Flatten([i \in DOMAIN englishGlosses |->
                           translateGlossToChinese(englishGlosses[i], translationMap)]))

JmJaEntry(entry) ==
  IF JmGlosses(entry, "english") = <<>> THEN <<>>
  ELSE << Entry(JmPrimaryWord(entry), JmReading(entry), None, Some(JmForms(entry)),
                JmPos(entry), JmGlosses(entry, "english"), "JMdict (English glosses)") >>

JmJaZhEntry(entry, translationMap) ==
  IF JmAggregatedChinese(entry, translationMap) = <<>> THEN <<>>
  ELSE << Entry(JmPrimaryWord(entry), JmReading(entry), None, Some(JmForms(entry)),
                JmPos(entry), JmAggregatedChinese(entry, translationMap),
                "JMdict + Kaikki (Chinese gloss)") >>

JMDICT_SOURCE == "JMdict (Monash Nihongo archive)"

RECURSIVE JmEntries(_, _, _)
JmEntries(data, entries, translationMap) ==
  IF entries = <<>> THEN data
  ELSE IF JmPrimaryWord(Head(entries)) = <<>>
    THEN JmEntries(data, Tail(entries), translationMap)
  ELSE JmEntries(
         [source |-> data.source,
          jaEntries |-> data.jaEntries \o JmJaEntry(Head(entries)),
          jaZhEntries |-> data.jaZhEntries \o JmJaZhEntry(Head(entries), translationMap)],
         Tail(entries), translationMap)

JmdictThrows(entries) == \E i \in DOMAIN entries : JmEntryThrows(entries[i])

\* parseJmdict on the entries of the parsed document.
parseJmdict(entries, translationMap) ==
  JmEntries([source |-> JMDICT_SOURCE, jaEntries |-> <<>>, jaZhEntries |-> <<>>],
            entries, translationMap)

(***************************************************************************)
(* The raw sources.  Each source has two archives in the model: the one    *)
(* the remote serves ("fresh") and an older one a raw cache may hold       *)
(* ("stale").  A Kaikki archive is its lines, each the outcome of          *)
(* JSON.parse on it; a CC-CEDICT archive is its text lines; a JMdict       *)
(* archive is the entry list XMLParser.parse returns.                      *)
(***************************************************************************)
Sources == {"kaikki", "jmdict", "cedict"}

KAIKKI_ARCHIVE == "kaikki.org-dictionary-English.jsonl.gz"
JMDICT_ARCHIVE == "JMdict.gz"
CEDICT_ARCHIVE == "cedict_1_0_ts_utf-8_mdbg.txt.gz"

KRecord(lang, word, forms, pos, sounds, senses, translations) ==
  [kind |-> "record", lang |-> lang, word |-> word, forms |-> forms, pos |-> pos,
   sounds |-> sounds, senses |-> senses, translations |-> translations]
\* A line that is empty ("empty"), is not JSON ("badjson"), is the JSON text
\* null ("null") or is JSON but no object ("scalar").
KLine(kind) ==
  [kind |-> kind, lang |-> "", word |-> JUndef, forms |-> <<>>, pos |-> JUndef,
   sounds |-> <<>>, senses |-> <<>>, translations |-> <<>>]
Sense(glosses) == [glosses |-> Some(glosses), raw_glosses |-> None]
RawSense(glosses) == [glosses |-> None, raw_glosses |-> Some(glosses)]
Translation(lang_code, lang, word, sense, roman) ==
  [object |-> TRUE, lang_code |-> lang_code, lang |-> lang, word |-> word,
   sense |-> sense, roman |-> roman]
NotATranslation ==
  [object |-> FALSE, lang_code |-> JUndef, lang |-> JUndef, word |-> JUndef,
   sense |-> JUndef, roman |-> JUndef]

KaikkiFresh ==
  << KRecord("English", JStr(<<"h","e","l","l","o">>), <<JStr(<<"h","e","l","l","o","s">>)>>, JStr(<<"i","n","t","j">>),
             <<JStr(<<"/","h","/">>)>>, <<Sense(<<JStr(<<"a"," ","g","r","e","e","t","i","n","g">>)>>)>>,
             <<Translation(JStr(<<"c","m","n">>), JStr(<<"C","h","i","n","e","s","e">>), JStr(<<"U+4F60","U+597D","U+FF0F","U+60A8","U+597D">>), JUndef, JUndef),
               Translation(JStr(<<"f","r">>), JStr(<<"F","r","e","n","c","h">>), JStr(<<"s","a","l","u","t">>), JUndef, JUndef),
               NotATranslation>>),
     KLine("badjson"),
     KRecord("English", JStr(<<"s","t","u","d","y"," ">>), <<>>, JUndef, <<>>,
             <<RawSense(<<JStr(<<"t","o"," ","l","e","a","r","n">>), JNum(<<"1">>)>>)>>,
             <<Translation(JStr(<<"z","h">>), JStr(<<"M","a","n","d","a","r","i","n">>), JStr(<<"U+5B66","U+4E60">>), JStr(<<"l","e","a","r","n">>), JStr(<<"x","u","e">>))>>),
     KRecord("English", JStr(<<" "," ">>), <<>>, JUndef, <<>>,
             <<Sense(<<JStr(<<"b","l","a","n","k">>)>>)>>, <<>>),
     KLine("empty"),
     KRecord("French", JStr(<<"o","u","i">>), <<>>, JUndef, <<>>,
             <<Sense(<<JStr(<<"y","e","s">>)>>)>>,
             <<Translation(JStr(<<"c","m","n">>), JUndef, JStr(<<"U+597D">>), JUndef, JUndef)>>),
     KRecord("English", JStr(<<"4","2">>), <<>>, JUndef, <<>>,
             <<Sense(<<JStr(<<"a"," ","n","u","m","b","e","r">>)>>)>>, <<>>),
     KRecord("English", JStr(<<"h","i">>), <<>>, JUndef, <<>>, <<Sense(<<JStr(<<" ">>)>>)>>,
             <<Translation(JStr(<<"c","m","n">>), JUndef, JStr(<<"U+4F60","U+597D">>), JUndef, JUndef),
               Translation(JStr(<<"c","m","n">>), JUndef, JStr(<<"n","i","h","a","o">>), JUndef, JUndef)>>),
     KLine("scalar") >>

\* An older dump: one record with English glosses and no Mandarin
\* translation, whose word has no letter, and one whose word is a number.
KaikkiStale ==
  << KRecord("English", JStr(<<"2","4","/","7">>), <<>>, JUndef, <<>>,
             <<Sense(<<JStr(<<"a"," ","g","r","e","e","t","i","n","g">>)>>)>>,
             <<Translation(JStr(<<"f","r">>), JStr(<<"F","r","e","n","c","h">>), JStr(<<"s","a","l","u","t">>), JUndef, JUndef)>>),
     KRecord("English", JNum(<<"7">>), <<>>, JUndef, <<>>, <<>>, <<>>) >>

CedictFresh ==
  << <<"#"," ","C","C","-","C","E","D","I","C","T">>,
     <<"U+5B78","U+7FD2"," ","U+5B66","U+4E60"," ","[","x","u","e","2"," ","x","i","2","]"," ","/","t","o"," ","s","t","u","d","y","/","t","o"," ","l","e","a","r","n","/">>,
     <<>>,
     <<"U+4F60","U+597D"," ","U+4F60","U+597D"," ","[","n","i","3"," ","h","a","o","3","]"," ","/","h","e","l","l","o"," ","(","g","r","e","e","t","i","n","g",")",";"," ","h","i","/">>,
     <<"U+597D"," ","[","h","a","o","3","]"," ","/","g","o","o","d","/">>,
     <<"U+7121"," ","U+65E0"," ","[","w","u","2","]"," ","/"," ","/">> >>

\* An older export that holds no entry line.
CedictStale ==
  << <<"#"," ","C","C","-","C","E","D","I","C","T">>,
     <<"U+597D"," ","[","h","a","o","3","]"," ","/","g","o","o","d","/">> >>

JmEntry(k_ele, r_ele, sense) == [k_ele |-> k_ele, r_ele |-> r_ele, sense |-> sense]
JmSense(pos, gloss) == [pos |-> pos, gloss |-> gloss]
GlossText(text) == [t |-> "string", v |-> text, lang |-> ""]
GlossElement(text, lang) == [t |-> "object", v |-> text, lang |-> lang]

JmdictFresh ==
  << JmEntry(<< <<JStr(<<"U+52C9","U+5F37">>)>> >>, << <<JStr(<<"U+3079","U+3093","U+304D","U+3087","U+3046">>)>> >>,
             <<JmSense(<<JStr(<<"&","n",";">>), JStr(<<"v","s">>)>>, <<GlossText(<<"t","o"," ","s","t","u","d","y">>)>>)>>),
     JmEntry(<<>>, << <<JStr(<<"U+3042","U+308A","U+304C","U+3068","U+3046">>)>> >>,
             <<JmSense(<<JStr(<<"e","x","p">>)>>,
                       <<GlossText(<<"t","h","a","n","k","s">>),
                         GlossElement(<<"U+8C22","U+8C22">>, "cmn")>>)>>),
     JmEntry(<< <<JStr(<<>>)>> >>, << <<JStr(<<"U+304B","U+3089">>)>> >>,
             <<JmSense(<<>>, <<GlossText(<<"e","m","p","t","y">>)>>)>>),
     JmEntry(<< <<JStr(<<"U+672C">>)>> >>, << <<JStr(<<"U+307B","U+3093">>)>> >>,
             <<JmSense(<<JStr(<<"n">>)>>, <<GlossElement(<<"b","o","e","k">>, "dut")>>)>>),
     JmEntry(<< <<JStr(<<"U+9375">>)>> >>, << <<JStr(<<"U+304B","U+304E">>)>> >>,
             <<JmSense(<<JStr(<<"n">>)>>, <<GlossText(<<"k","e","y">>)>>)>>) >>

\* An older file: one entry with an English gloss, nothing else.
JmdictStale ==
  << JmEntry(<<>>, << <<JStr(<<"U+306F","U+3044">>)>> >>,
             <<JmSense(<<>>, <<GlossText(<<"t","h","e"," ","h","e","l","l","o">>)>>)>>) >>

\* The decoded content of an archive that is complete.
ArchiveContent(source, version) ==
  CASE source = "kaikki" -> (IF version = "fresh" THEN KaikkiFresh ELSE KaikkiStale)
    [] source = "cedict" -> (IF version = "fresh" THEN CedictFresh ELSE CedictStale)
    [] source = "jmdict" -> (IF version = "fresh" THEN JmdictFresh ELSE JmdictStale)

(***************************************************************************)
(* The build (build, the builders, loadKaikki / loadCedict / loadJmdict,   *)
(* downloadFile, writeSqlite, writeGzipJson, checksum)                     *)
(***************************************************************************)
\* The length of the longest --languages list the model requests.
MaxLangs == 2

\* Identifiers a --languages list may name: the five registered ones, one
\* that is no property of the builder table ("fr") and one that the table
\* inherits from Object.prototype ("constructor"), which is no builder.
InheritedNames == {"constructor"}
LanguageIds == Languages \cup {"fr"} \cup InheritedNames
LanguageLists == UNION { [1..n -> LanguageIds] : n \in 1..MaxLangs }

VARIABLES
  options,          \* BuildOptions: [mode, force, languages]
  rawFs,            \* the raw cache: source -> "absent" | "partial" | "stale" | "fresh"
  sqliteFs,         \* <lang>.sqlite: language -> [state, rows]
  jsonFs,           \* <lang>.json.gz: language -> [state, entries]
  manifestFs,       \* manifest.json: [state, mode, dictionaries]
  context,          \* BuildContext: source -> None | Some(parsed data)
  manifestEntries,  \* build's manifestEntries
  idx,              \* position of the for loop in options.languages
  pc,               \* "loop" | "build" | "sqlite" | "gzip" | "sum1" | "sum2" | "done"
  stack,            \* the steps the running builder still has to take
  xml,              \* loadJmdict's local: the archive version read, if any
  result,           \* build's local: the BuilderResult
  count,            \* build's local: the rows writeSqlite reported
  sqliteSha256,     \* build's local: the store's checksum
  outcome,          \* history: what became of each requested position
  fetches,          \* history: source -> number of fetch calls
  parses,           \* history: source -> number of parser runs
  manifestWrites,   \* history: number of writes of manifest.json
  fs0,              \* history: the output files before the run
  probe             \* a pure function under test: [fn, in, out]; idle in a build

vars ==
  <<options, rawFs, sqliteFs, jsonFs, manifestFs, context, manifestEntries, idx, pc,
    stack, xml, result, count, sqliteSha256, outcome, fetches, parses,
    manifestWrites, fs0, probe>>

locals == <<stack, xml, result, count, sqliteSha256>>
outputs == <<sqliteFs, jsonFs, manifestFs>>

AbsentFile == [state |-> "absent", content |-> <<>>]
\* A file an earlier run left: its bytes are not those any step of this run writes.
OldFile == [state |-> "old", content |-> <<>>]
PartialFile == [state |-> "partial", content |-> <<>>]
WrittenFile(content) == [state |-> "written", content |-> content]
existsSync(file) == file.state # "absent"

AbsentManifest == [state |-> "absent", mode |-> "", dictionaries |-> <<>>]
OldManifest == [state |-> "old", mode |-> "", dictionaries |-> <<>>]

NoResult == [entries |-> <<>>, source |-> ""]

Idle == [fn |-> "idle", in |-> <<>>, out |-> None]

\* The source whose loader a registered language's builder calls.
BuilderSource(language) ==
  CASE language \in {"en-zh", "en"} -> "kaikki"
    [] language \in {"ja-zh", "ja"} -> "jmdict"
    [] language = "zh" -> "cedict"

\* The sources a production run of these languages can touch.
SourcesOf(language) ==
  IF language \notin Languages THEN {}
  ELSE IF BuilderSource(language) = "jmdict" THEN Sources
  ELSE {BuilderSource(language)}

Needed(opts) ==
  IF opts.mode = "sample" THEN {}
  ELSE UNION { SourcesOf(opts.languages[i]) : i \in DOMAIN opts.languages }

Requested(opts) == Range(opts.languages) \cap Languages

Pending == [status |-> "pending", step |-> "", error |-> ""]

Init ==
  /\ options \in [mode : {"sample", "production"}, force : BOOLEAN,
                  languages : LanguageLists]
  /\ rawFs \in [Sources -> {"absent", "stale", "partial"}]
  /\ \A s \in Sources \ Needed(options) : rawFs[s] = "absent"
  /\ \E old \in SUBSET Requested(options) :
       \E snapshotOnly \in SUBSET (Requested(options) \ old) :
         /\ sqliteFs = [l \in Languages |-> IF l \in old THEN OldFile ELSE AbsentFile]
         /\ jsonFs = [l \in Languages |->
                        IF l \in old \cup snapshotOnly THEN OldFile ELSE AbsentFile]
  /\ manifestFs \in {AbsentManifest, OldManifest}
  /\ context = [s \in Sources |-> None]
  /\ manifestEntries = <<>>
  /\ idx = 1
  /\ pc = "loop"
  /\ stack = <<>>
  /\ xml = None
  /\ result = NoResult
  /\ count = 0
  /\ sqliteSha256 = None
  /\ outcome = [i \in DOMAIN options.languages |-> Pending]
  /\ fetches = [s \in Sources |-> 0]
  /\ parses = [s \in Sources |-> 0]
  /\ manifestWrites = 0
  /\ fs0 = [sqlite |-> sqliteFs, json |-> jsonFs, manifest |-> manifestFs]
  /\ probe = Idle

InLoop == pc = "loop" /\ idx <= Len(options.languages)
language == options.languages[idx]

\* The end of one iteration of the for loop: by `continue`, by the catch
\* clause, or by reaching the end of the body.
NextLanguage(status, step, error) ==
  /\ outcome' = [outcome EXCEPT ![idx] = [status |-> status, step |-> step, error |-> error]]
  /\ idx' = idx + 1
  /\ pc' = "loop"
  /\ stack' = <<>>
  /\ xml' = None
  /\ result' = NoResult
  /\ count' = 0
  /\ sqliteSha256' = None

\* A catch clause that ends the run instead of the iteration.
Catch_Abort(step, error) ==
  /\ outcome' = [outcome EXCEPT ![idx] = [status |-> "failed", step |-> step, error |-> error]]
  /\ idx' = idx
  /\ pc' = "done"
  /\ stack' = <<>>
  /\ xml' = None
  /\ result' = NoResult
  /\ count' = 0
  /\ sqliteSha256' = None


\* The catch clause of build.
Catch(step, error) == NextLanguage("failed", step, error)

\* An unsupported language ends the run (`return` where the code has `continue`).
SkipUnsupported_Returns ==
  /\ InLoop
  /\ language \notin Languages /\ language \notin InheritedNames
  /\ outcome' = [outcome EXCEPT
                   ![idx] = [status |-> "unsupported", step |-> "lookup", error |-> ""]]
  /\ pc' = "done"
  /\ UNCHANGED <<idx, stack, xml, result, count, sqliteSha256>>
  /\ UNCHANGED <<options, probe, rawFs, outputs, context, manifestEntries, fetches, parses,
                 manifestWrites, fs0>>


\* builders[language] is undefined: warn and continue.
SkipUnsupported ==
  /\ InLoop
  /\ language \notin Languages /\ language \notin InheritedNames
  /\ NextLanguage("unsupported", "lookup", "")
  /\ UNCHANGED <<options, probe, rawFs, outputs, context, manifestEntries, fetches, parses,
                 manifestWrites, fs0>>

\* builders[language] is a property inherited from Object.prototype: it is
\* truthy, the call inside the try block yields no BuilderResult, reading
\* result.entries.length throws a TypeError, and the catch clause takes it.
FailNotABuilder ==
  /\ InLoop
  /\ language \in InheritedNames
  /\ Catch("builder", "type")
  /\ UNCHANGED <<options, probe, rawFs, outputs, context, manifestEntries, fetches, parses,
                 manifestWrites, fs0>>

\* A builder without the mode test: sample mode calls the loader too.
SampleBuilder_Loads ==
  /\ InLoop
  /\ language \in Languages
  /\ options.mode = "sample"
  /\ pc' = "build"
  /\ stack' = <<[op |-> "load", source |-> BuilderSource(language)]>>
  /\ UNCHANGED <<idx, outcome, xml, result, count, sqliteSha256>>
  /\ UNCHANGED <<options, probe, rawFs, outputs, context, manifestEntries, fetches, parses,
                 manifestWrites, fs0>>


\* A builder in sample mode returns its fixture list.  (Every language has
\* one, so the `: null` arm and the empty-result check never apply.)
SampleBuilder ==
  /\ InLoop
  /\ language \in Languages
  /\ options.mode = "sample"
  /\ IF SAMPLE_DICTIONARIES[language] = <<>>
       THEN NextLanguage("empty", "builder", "")
       ELSE /\ result' = [entries |-> SAMPLE_DICTIONARIES[language], source |-> "sample"]
            /\ pc' = "sqlite"
            /\ UNCHANGED <<idx, outcome, stack, xml, count, sqliteSha256>>
  /\ UNCHANGED <<options, probe, rawFs, outputs, context, manifestEntries, fetches, parses,
                 manifestWrites, fs0>>

\* A builder in production mode calls the loader of its source.
StartBuilder ==
  /\ InLoop
  /\ language \in Languages
  /\ options.mode = "production"
  /\ pc' = "build"
  /\ stack' = <<[op |-> "load", source |-> BuilderSource(language)]>>
  /\ UNCHANGED <<options, probe, rawFs, outputs, context, manifestEntries, idx, xml, result,
                 count, sqliteSha256, outcome, fetches, parses, manifestWrites, fs0>>

\* What the network does to one fetch: the body arrives ("ok"), the request
\* fails or the response is not ok or has no body ("error"), or the body
\* breaks off while it is piped to the file ("broken").
NetOutcomes == {"ok", "error", "broken"}

\* A download without the existence test: the archive is always fetched.
downloadFile_AlwaysFetches(file, force, net) ==
  CASE net = "ok" -> [file |-> "fresh", fetched |-> TRUE, thrown |-> FALSE]
    [] net = "error" -> [file |-> "absent", fetched |-> TRUE, thrown |-> TRUE]
    [] net = "broken" -> [file |-> "partial", fetched |-> TRUE, thrown |-> TRUE]


\* A download that keeps an existing archive even when --force is set.
downloadFile_IgnoresForce(file, force, net) ==
  IF file # "absent"
    THEN [file |-> file, fetched |-> FALSE, thrown |-> FALSE]
    ELSE CASE net = "ok" -> [file |-> "fresh", fetched |-> TRUE, thrown |-> FALSE]
           [] net = "error" -> [file |-> "absent", fetched |-> TRUE, thrown |-> TRUE]
           [] net = "broken" -> [file |-> "partial", fetched |-> TRUE, thrown |-> TRUE]


\* downloadFile: the file afterwards, whether fetch was called, whether it threw.
downloadFile(file, force, net) ==
  IF file # "absent" /\ ~force
    THEN [file |-> file, fetched |-> FALSE, thrown |-> FALSE]
    ELSE CASE net = "ok" -> [file |-> "fresh", fetched |-> TRUE, thrown |-> FALSE]
           [] net = "error" -> [file |-> "absent", fetched |-> TRUE, thrown |-> TRUE]
           [] net = "broken" -> [file |-> "partial", fetched |-> TRUE, thrown |-> TRUE]

\* The steps that follow a successful download in each loader.
AfterDownload(source) ==
  IF source = "jmdict"
    THEN <<[op |-> "read", source |-> "jmdict"], [op |-> "load", source |-> "kaikki"],
           [op |-> "load", source |-> "cedict"], [op |-> "parse", source |-> "jmdict"]>>
    ELSE <<[op |-> "parse", source |-> source]>>

\* A loader without the test of the context: it always acquires the archive.
Load_SkipsContext ==
  /\ pc = "build" /\ stack # <<>> /\ Head(stack).op = "load"
  /\ LET source == Head(stack).source
     IN \E net \in NetOutcomes :
          LET d == downloadFile(rawFs[source], options.force, net)
          IN /\ rawFs' = [rawFs EXCEPT ![source] = d.file]
             /\ fetches' = [fetches EXCEPT ![source] = @ + (IF d.fetched THEN 1 ELSE 0)]
             /\ IF d.thrown
                  THEN Catch("builder", "acquisition")
                  ELSE /\ stack' = AfterDownload(source) \o Tail(stack)
                       /\ UNCHANGED <<idx, pc, xml, result, count, sqliteSha256, outcome>>
  /\ UNCHANGED <<options, probe, outputs, context, manifestEntries, parses, manifestWrites, fs0>>


\* loadKaikki / loadCedict / loadJmdict up to the end of downloadFile: return
\* the context's data when it is there, else make sure the archive is local.
Load ==
  /\ pc = "build" /\ stack # <<>> /\ Head(stack).op = "load"
  /\ LET source == Head(stack).source
     IN IF context[source] # None
          THEN /\ stack' = Tail(stack)
               /\ UNCHANGED <<rawFs, fetches, idx, pc, xml, result, count, sqliteSha256,
                              outcome>>
          ELSE \E net \in NetOutcomes :
                 LET d == downloadFile(rawFs[source], options.force, net)
                 IN /\ rawFs' = [rawFs EXCEPT ![source] = d.file]
                    /\ fetches' = [fetches EXCEPT ![source] = @ + (IF d.fetched THEN 1 ELSE 0)]
                    /\ IF d.thrown
                         THEN Catch("builder", "acquisition")
                         ELSE /\ stack' = AfterDownload(source) \o Tail(stack)
                              /\ UNCHANGED <<idx, pc, xml, result, count, sqliteSha256,
                                             outcome>>
  /\ UNCHANGED <<options, probe, outputs, context, manifestEntries, parses, manifestWrites, fs0>>

\* readGzipFile in loadJmdict: a broken archive does not decompress.
ReadJmdict ==
  /\ pc = "build" /\ stack # <<>> /\ Head(stack) = [op |-> "read", source |-> "jmdict"]
  /\ IF rawFs["jmdict"] = "partial"
       THEN Catch("builder", "parse")
       ELSE /\ xml' = Some(rawFs["jmdict"])
            /\ stack' = Tail(stack)
            /\ UNCHANGED <<idx, pc, result, count, sqliteSha256, outcome>>
  /\ UNCHANGED <<options, probe, rawFs, outputs, context, manifestEntries, fetches, parses,
                 manifestWrites, fs0>>

\* A bilingual-XML parse that is given the sense dump's Translation Map
\* alone, without the flat-text one.
ParsedData_KaikkiMapOnly(source, version, ctx) ==
  CASE source = "kaikki" -> parseKaikki(ArchiveContent("kaikki", version))
    [] source = "cedict" -> parseCedict(ArchiveContent("cedict", version))
    [] source = "jmdict" ->
         parseJmdict(ArchiveContent("jmdict", version), ctx["kaikki"][1].translationMap)


\* The parsed data of a source, given what was read of it.
ParsedData(source, version, ctx) ==
  CASE source = "kaikki" -> parseKaikki(ArchiveContent("kaikki", version))
    [] source = "cedict" -> parseCedict(ArchiveContent("cedict", version))
    [] source = "jmdict" ->
         parseJmdict(ArchiveContent("jmdict", version),
                     MergeMaps(ctx["kaikki"][1].translationMap,
                               ctx["cedict"][1].translationMap))

ParserThrows(source, version) ==
  CASE source = "kaikki" -> KaikkiThrows(ArchiveContent("kaikki", version))
    [] source = "cedict" -> FALSE
    [] source = "jmdict" -> JmdictThrows(ArchiveContent("jmdict", version))

\* A loader that returns the parsed data without storing it in the context.
Parse_NotStored ==
  /\ pc = "build" /\ stack # <<>> /\ Head(stack).op = "parse"
  /\ LET source == Head(stack).source
         version == IF source = "jmdict" THEN xml[1] ELSE rawFs[source]
     IN IF version = "partial" \/ ParserThrows(source, version)
          THEN /\ Catch("builder", "parse")
               /\ UNCHANGED <<context, parses>>
          ELSE /\ context' = context
               /\ parses' = [parses EXCEPT ![source] = @ + 1]
               /\ stack' = Tail(stack)
               /\ UNCHANGED <<idx, pc, xml, result, count, sqliteSha256, outcome>>
  /\ UNCHANGED <<options, probe, rawFs, outputs, manifestEntries, fetches, manifestWrites, fs0>>


\* A bilingual-XML loader that merges into the sense dump's own map (no copy
\* of it is made): the stored sense-dump data changes with the merge.
Parse_MergesInPlace ==
  /\ pc = "build" /\ stack # <<>> /\ Head(stack).op = "parse"
  /\ LET source == Head(stack).source
         version == IF source = "jmdict" THEN xml[1] ELSE rawFs[source]
     IN IF version = "partial" \/ ParserThrows(source, version)
          THEN /\ Catch("builder", "parse")
               /\ UNCHANGED <<context, parses>>
          ELSE /\ context' =
                    IF source = "jmdict"
                      THEN [context EXCEPT
                              !["jmdict"] = Some(ParsedData(source, version, context)),
                              !["kaikki"] =
                                Some([@[1] EXCEPT
                                        !.translationMap =
                                          MergeMaps(context["kaikki"][1].translationMap,
                                                    context["cedict"][1].translationMap)])]
                      ELSE [context EXCEPT ![source] = Some(ParsedData(source, version, context))]
               /\ parses' = [parses EXCEPT ![source] = @ + 1]
               /\ stack' = Tail(stack)
               /\ UNCHANGED <<idx, pc, xml, result, count, sqliteSha256, outcome>>
  /\ UNCHANGED <<options, probe, rawFs, outputs, manifestEntries, fetches, manifestWrites, fs0>>


\* The rest of a loader: decompress and parse the archive (for JMdict, the
\* text read before), store the data in the context.
Parse ==
  /\ pc = "build" /\ stack # <<>> /\ Head(stack).op = "parse"
  /\ LET source == Head(stack).source
         version == IF source = "jmdict" THEN xml[1] ELSE rawFs[source]
     IN IF version = "partial" \/ ParserThrows(source, version)
          THEN /\ Catch("builder", "parse")
               /\ UNCHANGED <<context, parses>>
          ELSE /\ context' = [context EXCEPT ![source] = Some(ParsedData(source, version, context))]
               /\ parses' = [parses EXCEPT ![source] = @ + 1]
               /\ stack' = Tail(stack)
               /\ UNCHANGED <<idx, pc, xml, result, count, sqliteSha256, outcome>>
  /\ UNCHANGED <<options, probe, rawFs, outputs, manifestEntries, fetches, manifestWrites, fs0>>

\* What a builder returns once its loader has returned.
BuilderResult(lang, ctx) ==
  CASE lang = "en-zh" -> [entries |-> ctx["kaikki"][1].enZhEntries,
                          source |-> ctx["kaikki"][1].source]
    [] lang = "en" -> [entries |-> ctx["kaikki"][1].enEntries,
                       source |-> "Kaikki (Wiktionary, English edition) (English gloss)"]
    [] lang = "ja-zh" -> [entries |-> ctx["jmdict"][1].jaZhEntries,
                          source |-> "JMdict (Monash Nihongo archive) + Kaikki"]
    [] lang = "ja" -> [entries |-> ctx["jmdict"][1].jaEntries,
                       source |-> ctx["jmdict"][1].source]
    [] lang = "zh" -> [entries |-> ctx["cedict"][1].entries,
                       source |-> ctx["cedict"][1].source]

\* The builder returns; build skips the language when it has no entries.
BuilderReturn ==
  /\ pc = "build" /\ stack = <<>>
  /\ IF BuilderResult(language, context).entries = <<>>
       THEN NextLanguage("empty", "builder", "")
       ELSE /\ result' = BuilderResult(language, context)
            /\ pc' = "sqlite"
            /\ UNCHANGED <<idx, outcome, stack, xml, count, sqliteSha256>>
  /\ UNCHANGED <<options, probe, rawFs, outputs, context, manifestEntries, fetches, parses,
                 manifestWrites, fs0>>

\* What the file system does to a write or a read: it succeeds, or it fails
\* (for a write, with the file left incomplete or not created at all).
WriteOutcomes == {"ok", "incomplete", "nofile"}
ReadOutcomes == {"ok", "error"}

\* An overwrite gate with the force test inverted.
OverwriteConflict_Inverted(file, force) == existsSync(file) /\ force


\* The overwrite gate of writeSqlite and writeGzipJson.
OverwriteConflict(file, force) == existsSync(file) /\ ~force

\* The file a write leaves (the existing one was removed before).
AfterWrite(content, io) ==
  CASE io = "ok" -> WrittenFile(content)
    [] io = "incomplete" -> PartialFile
    [] io = "nofile" -> AbsentFile

\* A store writer that reports the number of entries it was given instead of
\* the number of rows it inserted.
WriteSqlite_CountsEntries ==
  /\ pc = "sqlite"
  /\ IF OverwriteConflict(sqliteFs[language], options.force)
       THEN /\ Catch("sqlite", "conflict")
            /\ UNCHANGED sqliteFs
       ELSE \E io \in WriteOutcomes :
              /\ sqliteFs' = [sqliteFs EXCEPT
                                ![language] = AfterWrite(Payloads(language, result.entries), io)]
              /\ IF io = "ok"
                   THEN /\ count' = Len(result.entries)
                        /\ pc' = "gzip"
                        /\ UNCHANGED <<idx, outcome, stack, xml, result, sqliteSha256>>
                   ELSE Catch("sqlite", "io")
  /\ UNCHANGED <<options, probe, rawFs, jsonFs, manifestFs, context, manifestEntries, fetches,
                 parses, manifestWrites, fs0>>


\* writeSqlite
WriteSqlite ==
  /\ pc = "sqlite"
  /\ IF OverwriteConflict(sqliteFs[language], options.force)
       THEN /\ Catch("sqlite", "conflict")
            /\ UNCHANGED sqliteFs
       ELSE \E io \in WriteOutcomes :
              /\ sqliteFs' = [sqliteFs EXCEPT
                                ![language] = AfterWrite(Payloads(language, result.entries), io)]
              /\ IF io = "ok"
                   THEN /\ count' = Len(Payloads(language, result.entries))
                        /\ pc' = "gzip"
                        /\ UNCHANGED <<idx, outcome, stack, xml, result, sqliteSha256>>
                   ELSE Catch("sqlite", "io")
  /\ UNCHANGED <<options, probe, rawFs, jsonFs, manifestFs, context, manifestEntries, fetches,
                 parses, manifestWrites, fs0>>

\* A snapshot write that is not awaited: its failure goes unnoticed.
WriteGzipJson_NotAwaited ==
  /\ pc = "gzip"
  /\ IF OverwriteConflict(jsonFs[language], options.force)
       THEN /\ Catch("gzip", "conflict")
            /\ UNCHANGED jsonFs
       ELSE \E io \in WriteOutcomes :
              /\ jsonFs' = [jsonFs EXCEPT ![language] = AfterWrite(result.entries, io)]
              /\ pc' = "sum1"
              /\ UNCHANGED <<idx, outcome, stack, xml, result, count, sqliteSha256>>
  /\ UNCHANGED <<options, probe, rawFs, sqliteFs, manifestFs, context, manifestEntries, fetches,
                 parses, manifestWrites, fs0>>


\* writeGzipJson
WriteGzipJson ==
  /\ pc = "gzip"
  /\ IF OverwriteConflict(jsonFs[language], options.force)
       THEN /\ Catch("gzip", "conflict")
            /\ UNCHANGED jsonFs
       ELSE \E io \in WriteOutcomes :
              /\ jsonFs' = [jsonFs EXCEPT ![language] = AfterWrite(result.entries, io)]
              /\ IF io = "ok"
                   THEN /\ pc' = "sum1"
                        /\ UNCHANGED <<idx, outcome, stack, xml, result, count, sqliteSha256>>
                   ELSE Catch("gzip", "io")
  /\ UNCHANGED <<options, probe, rawFs, sqliteFs, manifestFs, context, manifestEntries, fetches,
                 parses, manifestWrites, fs0>>

\* checksum: the SHA-256 of a file's bytes, which names the content.
checksum(file) == [sha256 |-> file]

\* const sqliteSha256 = await checksum(sqlitePath)
ChecksumSqlite ==
  /\ pc = "sum1"
  /\ \E io \in ReadOutcomes :
       IF io = "ok"
         THEN /\ sqliteSha256' = Some(checksum(sqliteFs[language]))
              /\ pc' = "sum2"
              /\ UNCHANGED <<idx, outcome, stack, xml, result, count>>
         ELSE Catch("checksum", "io")
  /\ UNCHANGED <<options, probe, rawFs, outputs, context, manifestEntries, fetches, parses,
                 manifestWrites, fs0>>

ManifestEntry(lang, entries, sqliteSha, jsonSha, source) ==
  [language |-> lang, entries |-> entries, sqlite |-> <<lang, ".sqlite">>,
   sqliteSha256 |-> sqliteSha, json |-> <<lang, ".json.gz">>, jsonSha256 |-> jsonSha,
   source |-> source]

\* const jsonSha256 = await checksum(jsonPath); manifestEntries.push(...)
ChecksumJsonAndRecord ==
  /\ pc = "sum2"
  /\ \E io \in ReadOutcomes :
       IF io = "ok"
         THEN /\ manifestEntries' =
                   Append(manifestEntries,
                          ManifestEntry(language, count, sqliteSha256[1],
                                        checksum(jsonFs[language]), result.source))
              /\ NextLanguage("recorded", "done", "")
         ELSE /\ Catch("checksum", "io")
              /\ UNCHANGED manifestEntries
  /\ UNCHANGED <<options, probe, rawFs, outputs, context, fetches, parses, manifestWrites, fs0>>

\* A finalization without the early return: the manifest is written even
\* when no entry was recorded.
Finalize_AlwaysWrites ==
  /\ pc = "loop" /\ idx > Len(options.languages)
  /\ manifestFs' = [state |-> "written", mode |-> options.mode,
                    dictionaries |-> manifestEntries]
  /\ manifestWrites' = manifestWrites + 1
  /\ pc' = "done"
  /\ UNCHANGED <<options, probe, rawFs, sqliteFs, jsonFs, context, manifestEntries, idx, locals,
                 outcome, fetches, parses, fs0>>


\* After the loop: no manifest entry, no manifest; else write manifest.json.
Finalize ==
  /\ pc = "loop" /\ idx > Len(options.languages)
  /\ IF manifestEntries = <<>>
       THEN UNCHANGED <<manifestFs, manifestWrites>>
       ELSE /\ manifestFs' = [state |-> "written", mode |-> options.mode,
                              dictionaries |-> manifestEntries]
            /\ manifestWrites' = manifestWrites + 1
  /\ pc' = "done"
  /\ UNCHANGED <<options, probe, rawFs, sqliteFs, jsonFs, context, manifestEntries, idx, locals,
                 outcome, fetches, parses, fs0>>

Next ==
  \/ SkipUnsupported
  \/ FailNotABuilder
  \/ SampleBuilder
  \/ StartBuilder
  \/ Load
  \/ ReadJmdict
  \/ Parse
  \/ BuilderReturn
  \/ WriteSqlite
  \/ WriteGzipJson
  \/ ChecksumSqlite
  \/ ChecksumJsonAndRecord
  \/ Finalize

Spec == Init /\ [][Next]_vars

\* The runs that start with an empty raw directory.
InitNoCache == Init /\ rawFs = [s \in Sources |-> "absent"]

SpecNoCache == InitNoCache /\ [][Next]_vars

(***************************************************************************)
(* Pure functions are applied to inputs drawn from bounded sets: `probe`   *)
(* holds the function, its input and (once applied) its output, while the  *)
(* build is at rest.                                                       *)
(***************************************************************************)
AtRest ==
  /\ options = [mode |-> "sample", force |-> FALSE, languages |-> <<"en">>]
  /\ rawFs = [s \in Sources |-> "absent"]
  /\ sqliteFs = [l \in Languages |-> AbsentFile]
  /\ jsonFs = [l \in Languages |-> AbsentFile]
  /\ manifestFs = AbsentManifest
  /\ context = [s \in Sources |-> None]
  /\ manifestEntries = <<>>
  /\ idx = 1
  /\ pc = "done"
  /\ stack = <<>>
  /\ xml = None
  /\ result = NoResult
  /\ count = 0
  /\ sqliteSha256 = None
  /\ outcome = <<Pending>>
  /\ fetches = [s \in Sources |-> 0]
  /\ parses = [s \in Sources |-> 0]
  /\ manifestWrites = 0
  /\ fs0 = [sqlite |-> sqliteFs, json |-> jsonFs, manifest |-> manifestFs]

build == <<options, rawFs, sqliteFs, jsonFs, manifestFs, context, manifestEntries, idx, pc,
           stack, xml, result, count, sqliteSha256, outcome, fetches, parses,
           manifestWrites, fs0>>

\* Translation Maps as the parsers build them (no empty key, value lists
\* non-empty and without repetition) over three keys and four value lists.
MapKeys == {<<"g", "o">>, <<"k", "e", "y">>, <<"g", "o", " ", "o", "n">>}
MapValues ==
  {<< <<"U+5B66">> >>, << <<"U+597D">> >>,
   << <<"U+5B66">>, <<"U+597D">> >>, << <<"U+597D">>, <<"U+5B66">> >>}
MapPool == UNION { [keys -> MapValues] : keys \in SUBSET MapKeys }

InitMerge ==
  /\ AtRest
  /\ \E first \in MapPool, second \in MapPool :
       probe = [fn |-> "merge", in |-> <<first, second>>, out |-> None]

\* const combinedMap = new Map(first); second.forEach(... addToMap ...)
ApplyMerge ==
  /\ probe.fn = "merge" /\ probe.out = None
  /\ probe' = [probe EXCEPT !.out = Some(MergeMaps(probe.in[1], probe.in[2]))]
  /\ UNCHANGED build

NextMerge == ApplyMerge

SpecMerge == InitMerge /\ [][NextMerge]_vars

(***************************************************************************)
(* The functions of the build applied one at a time to inputs drawn from   *)
(* bounded pools.                                                          *)
(***************************************************************************)
MaxEntries == 2

\* Entries as the builders produce them: the word trimmed and non-empty, the
\* reading absent or non-empty, forms and pos absent or non-empty, at least
\* one definition; the strings hold quotes, backslashes, tabs, commas,
\* brackets and characters outside ASCII.
PoolWords == {<<"G", "o">>, <<"4", "2">>, <<"U+5B66", "U+4E60">>, <<"i", "t", "'", "s">>}
PoolLists ==
  {[forms |-> None, pos |-> None,
    definitions |-> << <<"s", "a", "y", " ", "\"", "h", "i", "\"">> >>],
   [forms |-> Some(<< <<"a", "\\", "b">>, <<"U+5B78">> >>),
    pos |-> Some(<< <<"n", "o", "u", "n">> >>),
    definitions |-> << <<"a", ",", "[", "b", "]">>, <<"x", "\t", "y">> >>],
   [forms |-> Some(<< <<"G", "o">> >>),
    pos |-> Some(<< <<"v", "t">>, <<"n">> >>),
    definitions |-> << <<"U+5B66">>, <<"g", "o">>, <<"\\", "\"">> >>]}
PoolEntries ==
  { Entry(word, reading, None, lists.forms, lists.pos, lists.definitions, "pool") :
      word \in PoolWords, reading \in {None, Some(<<" ">>), Some(<<"U+304B">>)},
      lists \in PoolLists }
StoreInputs ==
  { [fn |-> "writeSqlite", in |-> <<l, entries>>, out |-> None] :
      l \in Languages,
      entries \in UNION { [1..n -> PoolEntries] : n \in 0..MaxEntries } }

\* The phrases normalizeEnglishKey is applied to: every string of up to
\* MaxKeyLen characters over letters of both cases, a digit, white space,
\* apostrophe, hyphen and a Han character.
MaxKeyLen == 3
KeyInputs ==
  { [fn |-> "normalizeEnglishKey", in |-> value, out |-> None] :
      value \in UNION { [1..n -> {"a", "B", "1", " ", "\t", "'", "-", "U+4F60"}] :
                          n \in 0..MaxKeyLen } }


\* The streams parseKaikki is applied to: up to MaxLines lines, each a line
\* of the two dumps above, the JSON text null, a record whose only Han
\* translation is Japanese, or a record whose Mandarin translations repeat a
\* variant with and without a sense label.
MaxLines == 3
ParseInputs ==
  { [fn |-> "parseKaikki", in |-> lines, out |-> None] :
      lines \in UNION { [1..n ->
        Range(KaikkiFresh) \cup Range(KaikkiStale) \cup
        { KLine("null"),
          KRecord("English", JStr(<<"g","o">>), <<>>, JUndef, <<>>,
                  <<Sense(<<JStr(<<"t","o"," ","m","o","v","e">>)>>)>>,
                  <<Translation(JStr(<<"j","a">>), JStr(<<"J","a","p","a","n","e","s","e">>),
                                JStr(<<"U+597D">>), JUndef, JUndef)>>),
          KRecord("English", JStr(<<"h","i">>), <<>>, JUndef, <<>>,
                  <<Sense(<<JStr(<<"h","e","l","l","o">>)>>)>>,
                  <<Translation(JStr(<<"c","m","n">>), JUndef, JStr(<<"U+4F60","U+597D">>),
                                JStr(<<"h","i">>), JUndef),
                    Translation(JStr(<<"c","m","n">>), JUndef,
                                JStr(<<"U+4F60","U+597D",";","n","i">>), JUndef, JUndef),
                    Translation(JStr(<<"c","m","n">>), JUndef, JStr(<<"U+4F60","U+597D">>),
                                JUndef, JUndef)>>) }] : n \in 0..MaxLines } }


\* The texts parseCedict is applied to: up to MaxLines lines, each a line of
\* the two exports above, a line that does not match the pattern, or an
\* entry line that shares a clause with another and carries a parenthetical.
CedictInputs ==
  { [fn |-> "parseCedict", in |-> lines, out |-> None] :
      lines \in UNION { [1..n ->
        Range(CedictFresh) \cup Range(CedictStale) \cup
        { <<"U+597D"," ","U+597D","[","h","a","o","3","]"," ","/","g","o","o","d","/">>,
          <<"U+4F5C","U+54C1"," ","U+4F5C","U+54C1"," ","[","z","u","o","4","]"," ",
            "/","g","o","o","d"," ","(","o","f"," ","a","r","t",")",","," ",
            "t","o"," ","s","t","u","d","y","/">> }] : n \in 0..MaxLines } }


\* The calls of translateGlossToChinese: a gloss and a Translation Map that
\* holds any subset of seven keys (a phrase, its words, stop words, a
\* one-letter key), each with its own list of forms.
GlossInputs ==
  LET forms == [key \in {<<"s","t","u","d","y">>, <<"t","o">>, <<"a">>, <<"a","b">>,
                         <<"g","o">>, <<"o","n">>, <<"g","o"," ","o","n">>} |->
                  CASE key = <<"s","t","u","d","y">> -> << <<"U+5B66","U+4E60">>, <<"U+5B78","U+7FD2">> >>
                    [] key = <<"t","o">> -> << <<"U+7528">> >>
                    [] key = <<"a">> -> << <<"U+540D">> >>
                    [] key = <<"a","b">> -> << <<"U+8BCD">> >>
                    [] key = <<"g","o">> -> << <<"U+52A8">>, <<"U+52D5">> >>
                    [] key = <<"o","n">> -> << <<"U+52D5">>, <<"U+672C">> >>
                    [] key = <<"g","o"," ","o","n">> -> << <<"U+7528","U+529F">> >>]
  IN { [fn |-> "translateGlossToChinese", in |-> <<gloss, [key \in keys |-> forms[key]]>>,
        out |-> None] :
         gloss \in {<<"t","o"," ","s","t","u","d","y">>, <<"S","t","u","d","y","!">>,
                    <<"a"," ","b">>, <<"g","o"," ","o","n">>, <<"g","o",","," ","a"," ","o","n">>,
                    <<"x","y","z">>, <<"1">>},
         keys \in SUBSET DOMAIN forms }


\* The calls of parseJmdict: up to MaxJmEntries entries, each an entry of
\* the two files above, an entry with a native gloss and no English one, or
\* an entry with two English glosses; and a combined map that is empty or
\* holds "study", "thanks" and "learn".
MaxJmEntries == 2
JmdictInputs ==
  { [fn |-> "parseJmdict", in |-> <<entries, map>>, out |-> None] :
      entries \in UNION { [1..n ->
        Range(JmdictFresh) \cup Range(JmdictStale) \cup
        { JmEntry(<< <<JStr(<<"U+540D">>)>> >>, << <<JStr(<<"U+306A">>)>> >>,
                  <<JmSense(<<JStr(<<"n">>)>>, <<GlossElement(<<"U+540D">>, "zh")>>)>>),
          JmEntry(<<>>, << <<JStr(<<"U+307E","U+306A","U+3076">>)>> >>,
                  <<JmSense(<<JStr(<<"v","t">>)>>,
                            <<GlossText(<<"t","o"," ","l","e","a","r","n">>),
                              GlossElement(<<"s","t","u","d","y">>, "eng")>>)>>) }] :
        n \in 0..MaxJmEntries },
      map \in { EmptyMap,
                [key \in {<<"s","t","u","d","y">>, <<"t","h","a","n","k","s">>, <<"l","e","a","r","n">>} |->
                   CASE key = <<"s","t","u","d","y">> -> << <<"U+5B66","U+4E60">>, <<"U+5B78","U+7FD2">> >>
                     [] key = <<"t","h","a","n","k","s">> -> << <<"U+611F">> >>
                     [] key = <<"l","e","a","r","n">> -> << <<"U+5B66">>, <<"U+5B66","U+4E60">> >>] } }


InitFunctions ==
  /\ AtRest
  /\ probe \in StoreInputs \cup KeyInputs \cup ParseInputs \cup CedictInputs
              \cup GlossInputs \cup JmdictInputs

\* writeSqlite on a fresh file: the rows it inserts and the count it returns.
ApplyWriteSqlite ==
  /\ probe.fn = "writeSqlite" /\ probe.out = None
  /\ probe' = [probe EXCEPT
                 !.out = Some([rows |-> Payloads(probe.in[1], probe.in[2]),
                               count |-> Len(Payloads(probe.in[1], probe.in[2]))])]
  /\ UNCHANGED build

ApplyNormalizeEnglishKey ==
  /\ probe.fn = "normalizeEnglishKey" /\ probe.out = None
  /\ probe' = [probe EXCEPT !.out = Some(normalizeEnglishKey(probe.in))]
  /\ UNCHANGED build


\* parseKaikki on a stream: it throws, or it returns the parsed data.
ApplyParseKaikki ==
  /\ probe.fn = "parseKaikki" /\ probe.out = None
  /\ probe' = [probe EXCEPT !.out =
                 Some(IF KaikkiThrows(probe.in)
                        THEN [threw |-> TRUE, data |-> None]
                        ELSE [threw |-> FALSE, data |-> Some(parseKaikki(probe.in))])]
  /\ UNCHANGED build


\* parseCedict on the lines of a text.
ApplyParseCedict ==
  /\ probe.fn = "parseCedict" /\ probe.out = None
  /\ probe' = [probe EXCEPT !.out = Some(parseCedict(probe.in))]
  /\ UNCHANGED build


ApplyTranslateGloss ==
  /\ probe.fn = "translateGlossToChinese" /\ probe.out = None
  /\ probe' = [probe EXCEPT !.out = Some(translateGlossToChinese(probe.in[1], probe.in[2]))]
  /\ UNCHANGED build


\* parseJmdict on the entries of a document: it throws, or returns the data.
ApplyParseJmdict ==
  /\ probe.fn = "parseJmdict" /\ probe.out = None
  /\ probe' = [probe EXCEPT !.out =
                 Some(IF JmdictThrows(probe.in[1])
                        THEN [threw |-> TRUE, data |-> None]
                        ELSE [threw |-> FALSE,
                              data |-> Some(parseJmdict(probe.in[1], probe.in[2]))])]
  /\ UNCHANGED build


NextFunctions ==
  \/ ApplyWriteSqlite
  \/ ApplyNormalizeEnglishKey
  \/ ApplyParseKaikki
  \/ ApplyParseCedict
  \/ ApplyTranslateGloss
  \/ ApplyParseJmdict

SpecFunctions == InitFunctions /\ [][NextFunctions]_vars


(***************************************************************************)
(* Claims                                                                  *)
(***************************************************************************)
\* The entries of a snapshot and the rows of a store this run has written.
SnapshotWritten(l) == jsonFs[l].state = "written"
StoreWritten(l) == sqliteFs[l].state = "written"

\* C1: in every run (either mode, any language list, --force or not) every
\* entry written to a language's snapshot, and every row written to its
\* store, has at least one definition and a non-empty word.
C1_NoEmptyDefinition ==
  \A l \in Languages :
    /\ SnapshotWritten(l) =>
         \A i \in DOMAIN jsonFs[l].content :
           /\ Len(jsonFs[l].content[i].definitions) >= 1
           /\ jsonFs[l].content[i].word # <<>>
    /\ StoreWritten(l) =>
         \A i \in DOMAIN sqliteFs[l].content :
           /\ sqliteFs[l].content[i].definitions # JsonStringify(<<>>)
           /\ sqliteFs[l].content[i].term # <<>>

\* A production run has written the store and the snapshot of the English
\* dictionary from the parsed dump, whose records include one without glosses.
C1_Witness ==
  /\ options.mode = "production"
  /\ SnapshotWritten("en") /\ Len(jsonFs["en"].content) >= 2
  /\ StoreWritten("en") /\ Len(sqliteFs["en"].content) >= 2
  /\ rawFs["kaikki"] = "fresh"


\* Is the entry's word among its surface forms?
FormsContainWord(entry) ==
  entry.forms # None /\ \E k \in DOMAIN entry.forms[1] : entry.forms[1][k] = entry.word

\* C2: every entry a builder returns (the fixtures of each language in
\* sample mode, a parser's entries in production mode) has its word among
\* its forms.
C2_FormsContainWord ==
  \A i \in DOMAIN result.entries : FormsContainWord(result.entries[i])

\* C2 restricted to the entries the three parsers produce.
C2_ParsedFormsContainWord ==
  options.mode = "production" => C2_FormsContainWord


\* C3: when a language's processing throws at any step, the catch clause
\* takes the error and the loop goes on to the language after it: a failed
\* language is behind the loop index, the languages from the index on are
\* still to be processed, and the run ends only when every requested
\* language has been processed.
C3_FailureIsolation ==
  /\ \A i \in DOMAIN outcome : outcome[i].status = "failed" => idx > i
  /\ \A i \in DOMAIN outcome : i >= idx => outcome[i].status = "pending"
  /\ pc = "done" =>
       /\ idx = Len(options.languages) + 1
       /\ \A i \in DOMAIN outcome : outcome[i].status # "pending"

\* The first language failed, and the one after it was built and is in the
\* manifest the run wrote.
C3_Witness ==
  /\ pc = "done"
  /\ Len(outcome) = 2
  /\ outcome[1].status = "failed"
  /\ outcome[2].status = "recorded"
  /\ manifestFs.state = "written"
  /\ Len(manifestFs.dictionaries) = 1
  /\ manifestFs.dictionaries[1].language = options.languages[2]


\* Every requested identifier is a registered language whose store and
\* snapshot both existed when the run started.
AllArtifactsExisted ==
  \A i \in DOMAIN options.languages :
    /\ options.languages[i] \in Languages
    /\ existsSync(fs0.sqlite[options.languages[i]])
    /\ existsSync(fs0.json[options.languages[i]])

OutputsUntouched ==
  /\ sqliteFs = fs0.sqlite
  /\ jsonFs = fs0.json
  /\ manifestFs = fs0.manifest
  /\ manifestWrites = 0

\* C4 as stated: in a run without --force in which the store and snapshot of
\* every requested language already exist, every language fails with an
\* overwrite-conflict error and the run creates, replaces or removes no
\* artifact file and no manifest file.
C4_EveryLanguageConflicts ==
  (~options.force /\ AllArtifactsExisted /\ pc = "done") =>
    /\ \A i \in DOMAIN outcome :
         outcome[i].status = "failed" /\ outcome[i].error = "conflict"
    /\ OutputsUntouched

\* C4 amended: in such a run no language gets past the store write and
\* nothing is written: a language whose builder returns entries fails with
\* an overwrite conflict at the store write, a language whose builder throws
\* (acquisition, parse) or returns no entries ends before it; in sample mode
\* every language fails with the overwrite conflict.
C4_NothingWritten ==
  (~options.force /\ AllArtifactsExisted) =>
    /\ OutputsUntouched
    /\ manifestEntries = <<>>
    /\ pc \notin {"gzip", "sum1", "sum2"}
    /\ \A i \in DOMAIN outcome :
         \/ outcome[i].status = "pending"
         \/ outcome[i].status = "empty"
         \/ outcome[i].status = "failed" /\ outcome[i].step = "builder"
         \/ /\ outcome[i].status = "failed"
            /\ outcome[i].step = "sqlite"
            /\ outcome[i].error = "conflict"
    /\ (options.mode = "sample" /\ pc = "done") =>
         \A i \in DOMAIN outcome :
           outcome[i].status = "failed" /\ outcome[i].error = "conflict"

\* A production run over two languages with existing artifacts has ended:
\* the archives were fetched and parsed, and both languages failed at the
\* store's overwrite gate.
C4_Witness ==
  /\ ~options.force /\ AllArtifactsExisted
  /\ options.mode = "production"
  /\ pc = "done"
  /\ Len(outcome) = 2
  /\ \A i \in DOMAIN outcome :
       /\ outcome[i].status = "failed"
       /\ outcome[i].step = "sqlite"
       /\ outcome[i].error = "conflict"
  /\ \E s \in Sources : fetches[s] = 1 /\ parses[s] = 1


\* The requested languages at the positions in S, in request order.
RECURSIVE LanguagesAt(_, _)
LanguagesAt(S, i) ==
  IF i > Len(options.languages) THEN <<>>
  ELSE (IF i \in S THEN <<options.languages[i]>> ELSE <<>>) \o LanguagesAt(S, i + 1)

LanguagesOf(entries) == [k \in DOMAIN entries |-> entries[k].language]

\* The positions whose store and snapshot were both written by this run
\* (the iteration got past writeGzipJson), and those also checksummed.
BothWritten == { i \in DOMAIN outcome : outcome[i].step \in {"checksum", "done"} }
Recorded == { i \in DOMAIN outcome : outcome[i].status = "recorded" }

C5_ListIsRecorded ==
  /\ LanguagesOf(manifestEntries) = LanguagesAt(Recorded, 1)
  /\ Recorded \subseteq BothWritten
  /\ manifestFs.state = "written" =>
       pc = "done" /\ manifestFs.dictionaries = manifestEntries

C5_RecordedAfterWritten ==
  manifestEntries' # manifestEntries =>
    /\ pc = "sum2"
    /\ StoreWritten(language)
    /\ sqliteFs[language].content = Payloads(language, result.entries)
    /\ SnapshotWritten(language)
    /\ jsonFs[language].content = result.entries
    /\ manifestEntries' =
         Append(manifestEntries,
                ManifestEntry(language, Len(sqliteFs[language].content),
                              checksum(sqliteFs[language]), checksum(jsonFs[language]),
                              result.source))

C6_ManifestWrittenOnce ==
  /\ manifestWrites \in {0, 1}
  /\ manifestWrites = 1 =>
       /\ pc = "done"
       /\ \A i \in DOMAIN outcome : outcome[i].status # "pending"
       /\ manifestEntries # <<>>
       /\ manifestFs = [state |-> "written", mode |-> options.mode,
                        dictionaries |-> manifestEntries]
  /\ manifestWrites = 0 => manifestFs = fs0.manifest
  /\ pc = "done" => (manifestWrites = 1 <=> manifestEntries # <<>>)

\* A run over two languages has ended: the first was recorded, the second
\* failed, and the manifest of an earlier run was replaced by one write.
C6_Witness ==
  /\ pc = "done"
  /\ Len(outcome) = 2
  /\ outcome[1].status = "recorded"
  /\ outcome[2].status = "failed"
  /\ fs0.manifest = OldManifest
  /\ manifestWrites = 1
  /\ manifestFs.state = "written"


\* The positions of the requested identifiers that name no registered builder.
Unregistered == { i \in DOMAIN options.languages : options.languages[i] \notin Languages }

C7_NeverInManifest ==
  /\ \A k \in DOMAIN manifestEntries : manifestEntries[k].language \in Languages
  /\ \A k \in DOMAIN manifestFs.dictionaries :
       manifestFs.dictionaries[k].language \in Languages
  /\ \A i \in Unregistered : outcome[i].status \in {"pending", "unsupported", "failed"}
  /\ \A i \in Unregistered : outcome[i].status = "failed" => outcome[i].step = "builder"

C7_SkipStep ==
  (InLoop /\ language \notin Languages) =>
    /\ UNCHANGED <<rawFs, sqliteFs, jsonFs, manifestFs, context, fetches, parses,
                   manifestEntries, manifestWrites>>
    /\ idx' = idx + 1
    /\ pc' = "loop"

\* C7: a requested identifier without a registered builder causes no
\* acquisition, no parsing and no file write, never appears in the manifest,
\* and the loop goes on to the identifier after it.
C7_UnregisteredSkipped == [](C7_NeverInManifest) /\ [][C7_SkipStep]_vars

\* The run was asked for an unregistered identifier and then a registered
\* language: the first was skipped, the second built from the archive and
\* recorded, and the manifest lists the second only.
C7_Witness ==
  /\ pc = "done"
  /\ options.mode = "production"
  /\ Len(options.languages) = 2
  /\ options.languages[1] \notin Languages
  /\ outcome[1].status = "unsupported"
  /\ outcome[2].status = "recorded"
  /\ LanguagesOf(manifestFs.dictionaries) = <<options.languages[2]>>


\* C8: in sample mode, for any language list and either --force setting, the
\* run fetches nothing and parses nothing, the BuildContext stays empty, and
\* what is persisted for a language is exactly its fixture list: the
\* snapshot holds the fixtures, the store one row per fixture, in order.
C8_SampleModeUsesFixtures ==
  options.mode = "sample" =>
    /\ \A s \in Sources : fetches[s] = 0 /\ parses[s] = 0 /\ context[s] = None
    /\ rawFs = [s \in Sources |-> "absent"]
    /\ \A l \in Languages :
         /\ SnapshotWritten(l) => jsonFs[l].content = SAMPLE_DICTIONARIES[l]
         /\ StoreWritten(l) =>
              sqliteFs[l].content =
                [i \in DOMAIN SAMPLE_DICTIONARIES[l] |->
                   toRowPayload(l, SAMPLE_DICTIONARIES[l][i])]

\* A sample run has built two different languages and written their files.
C8_Witness ==
  /\ options.mode = "sample"
  /\ pc = "done"
  /\ Len(options.languages) = 2
  /\ options.languages[1] # options.languages[2]
  /\ Recorded = {1, 2}
  /\ \A i \in {1, 2} :
       /\ SnapshotWritten(options.languages[i])
       /\ StoreWritten(options.languages[i])
       /\ Len(jsonFs[options.languages[i]].content) >= 1


\* A loader is about to call downloadFile for a source whose archive is in
\* the raw directory, in a run without --force.
DownloadOfExisting ==
  /\ pc = "build" /\ stack # <<>> /\ Head(stack).op = "load"
  /\ context[Head(stack).source] = None
  /\ rawFs[Head(stack).source] # "absent"
  /\ ~options.force

\* C9: when the destination archive exists and --force is not set,
\* downloadFile returns without a fetch and leaves the file as it is: the
\* loader goes on to read that file.
C9_ExistingArchiveKept ==
  [][DownloadOfExisting =>
       /\ rawFs' = rawFs
       /\ fetches' = fetches
       /\ outcome' = outcome
       /\ stack' = AfterDownload(Head(stack).source) \o Tail(stack)]_vars

\* The sense dump was in the raw directory before the run; the run parsed it
\* into the context without a single fetch of it.
C9_Witness ==
  /\ ~options.force
  /\ rawFs["kaikki"] = "stale"
  /\ fetches["kaikki"] = 0
  /\ parses["kaikki"] = 1
  /\ context["kaikki"] # None


\* C10: merging a Translation Map with itself changes neither its keys nor
\* the set of values under any key.
C10_MergeIdempotent ==
  (probe.fn = "merge" /\ probe.out # None /\ probe.in[1] = probe.in[2]) =>
    /\ DOMAIN probe.out[1] = DOMAIN probe.in[1]
    /\ \A key \in DOMAIN probe.in[1] :
         Range(probe.out[1][key]) = Range(probe.in[1][key])

\* A map with all three keys, two of them holding two values, was merged
\* with itself.
C10_Witness ==
  /\ probe.fn = "merge" /\ probe.out # None
  /\ probe.in[1] = probe.in[2]
  /\ DOMAIN probe.in[1] = MapKeys
  /\ \E k1 \in MapKeys, k2 \in MapKeys :
       k1 # k2 /\ Len(probe.in[1][k1]) = 2 /\ Len(probe.in[1][k2]) = 2


\* The values a map holds under a key, as a set (none when the key is absent).
ValueSet(map, key) == Range(MapGetOr(map, key, <<>>))

\* C11: merging two Translation Maps does not depend on their order:
\* merge(A, B) and merge(B, A) have the same keys, the keys of A and of B,
\* and under each key the same set of values, the union of A's and B's.
C11_MergeCommutative ==
  (probe.fn = "merge" /\ probe.out # None) =>
    LET first == probe.in[1]
        second == probe.in[2]
        swapped == MergeMaps(second, first)
    IN /\ DOMAIN probe.out[1] = DOMAIN first \cup DOMAIN second
       /\ DOMAIN swapped = DOMAIN probe.out[1]
       /\ \A key \in DOMAIN probe.out[1] :
            /\ Range(probe.out[1][key]) = ValueSet(first, key) \cup ValueSet(second, key)
            /\ Range(swapped[key]) = Range(probe.out[1][key])

\* Two maps that share a key, each holding a value under it the other lacks,
\* and that each have a key the other lacks, were merged.
C11_Witness ==
  /\ probe.fn = "merge" /\ probe.out # None
  /\ \E key \in DOMAIN probe.in[1] \cap DOMAIN probe.in[2] :
       /\ ValueSet(probe.in[1], key) \ ValueSet(probe.in[2], key) # {}
       /\ ValueSet(probe.in[2], key) \ ValueSet(probe.in[1], key) # {}
  /\ DOMAIN probe.in[1] \ DOMAIN probe.in[2] # {}
  /\ DOMAIN probe.in[2] \ DOMAIN probe.in[1] # {}


\* Is the entry one the store keeps: its persistence key is non-empty or its
\* trimmed reading is?
Kept(lang, entry) ==
  \/ normaliseForLanguage(lang, entry.word) # <<>>
  \/ entry.reading # None /\ Trim(entry.reading[1]) # <<>>

KeptEntries(lang, entries) == SelectSeq(entries, LAMBDA entry : Kept(lang, entry))

\* A column decoded: the list it holds, or nothing for NULL.
Decoded(column) == IF column = None THEN None ELSE Some(JsonParse(column[1]))

\* C12: for every entry writeSqlite inserts, decoding the row's definitions,
\* forms and pos columns gives back the entry's lists, in the same order
\* (an absent list is a NULL column).
C12_StoreRoundTrip ==
  (probe.fn = "writeSqlite" /\ probe.out # None) =>
    LET kept == KeptEntries(probe.in[1], probe.in[2])
        rows == probe.out[1].rows
    IN /\ Len(rows) = Len(kept)
       /\ \A i \in DOMAIN rows :
            /\ JsonParse(rows[i].definitions) = kept[i].definitions
            /\ Decoded(rows[i].forms) = kept[i].forms
            /\ Decoded(rows[i].pos) = kept[i].pos

\* Two entries were inserted whose lists hold a quote, a backslash, a tab, a
\* comma and brackets; one has forms and pos, the other has neither.
C12_Witness ==
  /\ probe.fn = "writeSqlite" /\ probe.out # None
  /\ Len(probe.out[1].rows) = 2
  /\ probe.out[1].rows[1].forms = None
  /\ probe.out[1].rows[2].forms # None /\ probe.out[1].rows[2].pos # None
  /\ \E k \in DOMAIN probe.in[2][2].definitions :
       "\t" \in Range(probe.in[2][2].definitions[k])
  /\ \E k \in DOMAIN probe.in[2][1].definitions :
       "\"" \in Range(probe.in[2][1].definitions[k])


\* What a run with --force builds for a language, as a function of its
\* inputs alone (the mode, and in production mode the remote archives): the
\* context with every source parsed from its remote archive, the builder's
\* result, and the manifest entry of the two files written from it.
RemoteContext ==
  LET parsed == [s \in Sources |->
                   IF s = "jmdict" THEN None
                   ELSE Some(ParsedData(s, "fresh", [t \in Sources |-> None]))]
  IN [parsed EXCEPT !["jmdict"] = Some(ParsedData("jmdict", "fresh", parsed))]

ForcedResult(lang, mode) ==
  IF mode = "sample" THEN [entries |-> SAMPLE_DICTIONARIES[lang], source |-> "sample"]
  ELSE BuilderResult(lang, RemoteContext)

ForcedEntry(lang, mode) ==
  ManifestEntry(lang, Len(Payloads(lang, ForcedResult(lang, mode).entries)),
                checksum(WrittenFile(Payloads(lang, ForcedResult(lang, mode).entries))),
                checksum(WrittenFile(ForcedResult(lang, mode).entries)),
                ForcedResult(lang, mode).source)

\* C13: two runs with --force over the same inputs and the same language
\* list record the same store and snapshot checksums for every language:
\* whatever files and archives the run found and whichever steps failed on
\* the way, the entry it records for a language is the one its inputs fix.
C13_ForcedRunsAgree ==
  options.force =>
    /\ \A k \in DOMAIN manifestEntries :
         manifestEntries[k] = ForcedEntry(manifestEntries[k].language, options.mode)
    /\ \A k \in DOMAIN manifestFs.dictionaries :
         manifestFs.dictionaries[k] =
           ForcedEntry(manifestFs.dictionaries[k].language, options.mode)

\* A production run with --force has ended: its first language failed, its
\* second replaced the files of an earlier run and was recorded, from an
\* archive fetched in this run.
C13_Witness ==
  /\ options.force /\ options.mode = "production"
  /\ pc = "done"
  /\ Len(outcome) = 2
  /\ outcome[1].status = "failed"
  /\ outcome[2].status = "recorded"
  /\ existsSync(fs0.sqlite[options.languages[2]])
  /\ \E s \in Sources : fetches[s] >= 2
  /\ Len(manifestFs.dictionaries) = 1


NoBuilderFailed ==
  \A i \in DOMAIN outcome : ~(outcome[i].status = "failed" /\ outcome[i].step = "builder")

C14_OncePerCleanRun ==
  (pc = "done" /\ options.mode = "production" /\ NoBuilderFailed) =>
    \A s \in Needed(options) : fetches[s] = 1 /\ rawFs[s] = "fresh"

C14_NoSecondDownload ==
  \A s \in Sources :
    /\ (~options.force /\ rawFs[s] # "absent") =>
         rawFs'[s] = rawFs[s] /\ fetches'[s] = fetches[s]
    /\ context[s] # None => rawFs'[s] = rawFs[s] /\ fetches'[s] = fetches[s]

C15_ParsedAtMostOnce ==
  /\ \A s \in Sources : parses[s] \in {0, 1} /\ (parses[s] = 1 <=> context[s] # None)
  /\ \A i \in Recorded :
       options.mode = "production" =>
         \A s \in SourcesOf(options.languages[i]) : parses[s] = 1

C15_StoredIsReused ==
  \A s \in Sources :
    context[s] # None =>
      /\ parses'[s] = parses[s]
      /\ fetches'[s] = fetches[s]
      /\ rawFs'[s] = rawFs[s]
      /\ context'[s] = context[s]

C16_AsParsed ==
  [s \in {"kaikki", "cedict"} |->
     [version \in {"stale", "fresh"} |->
        ParsedData(s, version, [x \in Sources |-> None])]]

C16_StoredAsParsed ==
  \A s \in {"kaikki", "cedict"} :
    context[s] # None =>
      /\ rawFs[s] \in {"stale", "fresh"}
      /\ context[s][1] = C16_AsParsed[s][rawFs[s]]

C16_NeverChanged ==
  \A s \in Sources : context[s] # None => context'[s] = context[s]

\* C16: once the parsed data of a source is in the BuildContext it is never
\* cleared, replaced or modified in that run; the sense-dump and flat-text
\* data stay what their parsers returned, also after the bilingual-XML
\* loader has built the combined Translation Map from their maps.
C16_ContextImmutable == [](C16_StoredAsParsed) /\ [][C16_NeverChanged]_vars

\* All three sources are in the context: the combined map was built from a
\* flat-text map that has keys the sense-dump map lacks.
C16_Witness ==
  /\ \A s \in Sources : context[s] # None
  /\ pc = "done"
  /\ DOMAIN context["cedict"][1].translationMap
       \ DOMAIN context["kaikki"][1].translationMap # {}
  /\ DOMAIN context["kaikki"][1].translationMap # {}


\* C17: writeSqlite inserts exactly the entries whose persistence key is not
\* empty or whose trimmed reading is not empty, one row each and in the order
\* of the input, and returns the number of rows inserted; no inserted row has
\* both an empty key and an empty reading.
C17_StoreFilter ==
  (probe.fn = "writeSqlite" /\ probe.out # None) =>
    LET lang == probe.in[1]
        kept == KeptEntries(lang, probe.in[2])
        rows == probe.out[1].rows
    IN /\ DOMAIN rows = DOMAIN kept
       /\ \A i \in DOMAIN rows : rows[i] = toRowPayload(lang, kept[i])
       /\ probe.out[1].count = Len(kept)
       /\ \A i \in DOMAIN rows :
            ~(/\ rows[i].normalized = <<>>
              /\ (rows[i].reading = None \/ rows[i].reading[1] = <<>>))

\* Two entries with an empty key were written: the first, whose reading is
\* blank, was dropped and the second, which has a reading, is the only row.
C17_Witness ==
  /\ probe.fn = "writeSqlite" /\ probe.out # None
  /\ Len(probe.in[2]) = 2
  /\ \A i \in 1..2 : normaliseForLanguage(probe.in[1], probe.in[2][i].word) = <<>>
  /\ probe.in[2][1].reading = Some(<<" ">>)
  /\ probe.in[2][2].reading = Some(<<"U+304B">>)
  /\ probe.out[1].count = 1
  /\ probe.out[1].rows[1].term = probe.in[2][2].word


\* The words of a lowercased phrase: its maximal runs of letters, apostrophes
\* and hyphens.
WordsOf(lowercase) ==
  FilterNonEmpty(SplitOn(Range(lowercase) \ (LowerAZ \cup {"'", "-"}), lowercase))

KeysOf(first, second) == Dedup(FilterNonEmpty(<<first, second>>))

\* C18 as stated: at most two keys, none empty: (a) the lowercased phrase
\* with every character outside letters, white space, apostrophe and hyphen
\* deleted and white space collapsed, and (b) key (a) without its spaces.
C18_KeysAsStated ==
  (probe.fn = "normalizeEnglishKey" /\ probe.out # None) =>
    LET keys == probe.out[1]
        kept == StripOutside(LowerAZ \cup SpaceChars \cup {"'", "-"},
                             ToLowerCase(probe.in))
        first == Join(FilterNonEmpty(SplitOn(SpaceChars, kept)), <<" ">>)
        second == StripOutside(LowerAZ \cup {"'", "-"}, first)
    IN /\ Len(keys) <= 2
       /\ \A i \in DOMAIN keys : keys[i] # <<>>
       /\ keys = KeysOf(first, second)

\* C18, amended: at most two keys, none empty and no key twice: (a) the
\* words of the lowercased phrase joined by single spaces, where every run
\* of characters outside letters, apostrophe and hyphen separates two words,
\* and (b) key (a) without its spaces.
C18_Keys ==
  (probe.fn = "normalizeEnglishKey" /\ probe.out # None) =>
    LET keys == probe.out[1]
        first == Join(WordsOf(ToLowerCase(probe.in)), <<" ">>)
        second == StripOutside(LowerAZ \cup {"'", "-"}, first)
    IN /\ Len(keys) <= 2
       /\ \A i \in DOMAIN keys : keys[i] # <<>>
       /\ keys = KeysOf(first, second)

\* A phrase with a digit between two letters has been normalised: the digit
\* separates two words in key (a), and key (b) is the two letters.
C18_Witness ==
  /\ probe.fn = "normalizeEnglishKey"
  /\ probe.in = <<"a", "1", "B">>
  /\ probe.out = Some(<< <<"a", " ", "b">>, <<"a", "b">> >>)


LineRemoved(lines, i) == SubSeq(lines, 1, i - 1) \o SubSeq(lines, i + 1, Len(lines))

Parsed == probe.fn = "parseKaikki" /\ probe.out # None

\* C19: a line of the sense dump that is not a valid record never aborts
\* parseKaikki: the parse returns, and what it returns is the result of
\* parsing the stream without that line.
C19_InvalidLineSkipped ==
  Parsed =>
    \A i \in DOMAIN probe.in :
      probe.in[i].kind # "record" =>
        /\ ~probe.out[1].threw
        /\ probe.out[1].data = Some(parseKaikki(LineRemoved(probe.in, i)))

\* C19 for the lines the parser does skip: an empty line, a line that is not
\* JSON and a JSON value that is not null are dropped without a trace when no
\* line of the stream is the JSON text null.
C19_OtherLinesSkipped ==
  (Parsed /\ \A i \in DOMAIN probe.in : probe.in[i].kind # "null") =>
    \A i \in DOMAIN probe.in :
      probe.in[i].kind # "record" =>
        /\ ~probe.out[1].threw
        /\ probe.out[1].data = Some(parseKaikki(LineRemoved(probe.in, i)))

\* A stream with the line null between two records that would both give a
\* cross-lingual entry has been parsed, and the parse threw.
C19_NullLineThrows ==
  /\ Parsed
  /\ Len(probe.in) = 3
  /\ probe.in[2].kind = "null"
  /\ \A i \in {1, 3} : probe.in[i].kind = "record" /\ KaikkiEnZhEntry(probe.in[i]) # <<>>
  /\ probe.out[1].threw


\* A translation that qualifies: an object whose word holds a Han character
\* and whose language is Mandarin by code or by name.
Qualifies(translation) ==
  /\ translation.object
  /\ IsStr(translation.word) /\ containsHan(translation.word.v)
  /\ \/ IsStr(translation.lang_code) /\ translation.lang_code.v = <<"c","m","n">>
     \/ /\ IsStr(translation.lang)
        /\ ContainsIgnoreCase(translation.lang.v, <<"m","a","n","d","a","r","i","n">>)

SenseLabel(translation) ==
  IF IsStr(translation.sense) THEN Trim(translation.sense.v) ELSE <<>>

\* Every variant of every qualifying translation of a record, with the sense
\* label of its translation when there is one.
StatedDefinitions(record) ==
  UNION { { IF SenseLabel(translation) # <<>>
              THEN variant \o <<" ", "U+2014", " ">> \o SenseLabel(translation)
              ELSE variant :
            variant \in Range(splitChineseVariants(translation.word.v)) } :
          translation \in { t \in Range(record.translations) : Qualifies(t) } }

KeptRecords(lines) == SelectSeq(lines, LAMBDA line : ~KaikkiSkipped(line))

\* C20: of the kept records of a stream, exactly those with a qualifying
\* translation that yields a variant give a cross-lingual entry, in order;
\* its definitions are those variants, each once, with the sense label where
\* the translation has one.  Exactly the kept records with glosses give an
\* English-only entry, whatever their translations are.
C20_CrossLingualEntries ==
  (Parsed /\ ~probe.out[1].threw) =>
    LET data == probe.out[1].data[1]
        cross == SelectSeq(KeptRecords(probe.in),
                           LAMBDA record : StatedDefinitions(record) # {})
        glossed == SelectSeq(KeptRecords(probe.in),
                             LAMBDA record : collectGlosses(record.senses) # <<>>)
    IN /\ DOMAIN data.enZhEntries = DOMAIN cross
       /\ \A i \in DOMAIN cross :
            /\ data.enZhEntries[i].word = Trim(cross[i].word.v)
            /\ Range(data.enZhEntries[i].definitions) = StatedDefinitions(cross[i])
            /\ Len(data.enZhEntries[i].definitions) = Cardinality(StatedDefinitions(cross[i]))
       /\ DOMAIN data.enEntries = DOMAIN glossed
       /\ \A i \in DOMAIN glossed :
            /\ data.enEntries[i].word = Trim(glossed[i].word.v)
            /\ data.enEntries[i].definitions = collectGlosses(glossed[i].senses)

\* Two records with glosses have been parsed: the first has only a Japanese
\* translation in Han characters and gives no cross-lingual entry, the
\* second gives one whose definitions are its three distinct variants; both
\* give an English-only entry.
C20_Witness ==
  /\ Parsed /\ ~probe.out[1].threw
  /\ Len(probe.in) = 2
  /\ probe.in[1].kind = "record" /\ probe.in[1].word = JStr(<<"g","o">>)
  /\ Len(probe.out[1].data[1].enEntries) = 2
  /\ Len(probe.out[1].data[1].enZhEntries) = 1
  /\ probe.out[1].data[1].enZhEntries[1].definitions =
       << <<"U+4F60","U+597D"," ","U+2014"," ","h","i">>, <<"U+4F60","U+597D">>, <<"n","i">> >>


\* A flat-text line that is accepted: not blank, no comment, matching the
\* pattern, with a definition.
AcceptedLine(line) ==
  /\ Trim(line) # <<>>
  /\ Trim(line)[1] # "#"
  /\ CedictMatch(Trim(line)) # None
  /\ CedictDefinitions(CedictMatch(Trim(line))[1]) # <<>>

\* The clauses of a definition: parenthetical asides removed, split on comma
\* and semicolon, a leading "to " removed.
ClausesOf(definition) ==
  LET pieces == SplitOn({",", ";"}, Trim(CollapseSpaces(RemoveParens(definition))))
  IN { StripInfinitive(Trim(pieces[i])) : i \in { j \in DOMAIN pieces : Trim(pieces[j]) # <<>> } }

\* The keys the clauses of an accepted line normalise to.
ClauseKeys(line) ==
  UNION { Range(normalizeEnglishKey(clause)) :
            clause \in UNION { ClausesOf(definition) :
                                 definition \in Range(CedictDefinitions(CedictMatch(Trim(line))[1])) } }

\* C21: after parseCedict the Translation Map has exactly the keys some
\* clause of an accepted line normalises to, and under each key exactly the
\* forms of the accepted lines with such a clause, each once; the entries
\* are one per accepted line, so a blank, comment, unmatched or
\* definition-less line adds no entry and no key.
C21_MapIsUnionOfForms ==
  (probe.fn = "parseCedict" /\ probe.out # None) =>
    LET data == probe.out[1]
        accepted == { i \in DOMAIN probe.in : AcceptedLine(probe.in[i]) }
        FormsUnder(key) ==
          UNION { Range(CedictForms(CedictMatch(Trim(probe.in[i]))[1])) :
                    i \in { j \in accepted : key \in ClauseKeys(probe.in[j]) } }
    IN /\ DOMAIN data.translationMap = UNION { ClauseKeys(probe.in[i]) : i \in accepted }
       /\ \A key \in DOMAIN data.translationMap :
            /\ Range(data.translationMap[key]) = FormsUnder(key)
            /\ Len(data.translationMap[key]) = Cardinality(FormsUnder(key))
       /\ Len(data.entries) = Cardinality(accepted)

\* Three lines were parsed: a comment, and two entry lines of different
\* words that share the clause "study"; the key holds the forms of both and
\* "to study" is no key.
C21_Witness ==
  /\ probe.fn = "parseCedict" /\ probe.out # None
  /\ Len(probe.in) = 3
  /\ probe.in[1] # <<>> /\ probe.in[1][1] = "#"
  /\ Len(probe.out[1].entries) = 2
  /\ <<"s","t","u","d","y">> \in DOMAIN probe.out[1].translationMap
  /\ Cardinality(Range(probe.out[1].translationMap[<<"s","t","u","d","y">>])) = 3
  /\ <<"t","o"," ","s","t","u","d","y">> \notin DOMAIN probe.out[1].translationMap


ValuesUnder(map, keys) == UNION { Range(map[key]) : key \in keys \cap DOMAIN map }

\* The white-space tokens of the lookup keys of a gloss that are looked up:
\* longer than one character and no stop word.
LookedUpTokens(gloss) ==
  { token \in UNION { Range(SplitOn({" "}, key)) : key \in Range(normalizeEnglishKey(gloss)) } :
      Len(token) > 1 /\ token \notin STOP_WORDS }

\* C23: translateGlossToChinese returns, each value once, the values under
\* the lookup keys of the whole gloss when one of these keys is in the map;
\* only when none is, it returns the values under the gloss's tokens that
\* are longer than one character and no stop word; nothing when neither hits.
C23_GlossTranslator ==
  (probe.fn = "translateGlossToChinese" /\ probe.out # None) =>
    LET gloss == probe.in[1]
        map == probe.in[2]
        keys == Range(normalizeEnglishKey(gloss))
        translated == probe.out[1]
    IN /\ Len(translated) = Cardinality(Range(translated))
       /\ (keys \cap DOMAIN map # {}) => Range(translated) = ValuesUnder(map, keys)
       /\ (keys \cap DOMAIN map = {}) =>
            Range(translated) = ValuesUnder(map, LookedUpTokens(gloss))
       /\ (keys \cap DOMAIN map = {} /\ LookedUpTokens(gloss) \cap DOMAIN map = {}) =>
            translated = <<>>

\* "to study" was translated with a map that holds "to" and "study" but not
\* the phrase: the translated is what the map holds under "study".
C23_Witness ==
  /\ probe.fn = "translateGlossToChinese" /\ probe.out # None
  /\ probe.in[1] = <<"t","o"," ","s","t","u","d","y">>
  /\ {<<"t","o">>, <<"s","t","u","d","y">>} \subseteq DOMAIN probe.in[2]
  /\ probe.out[1] = probe.in[2][<<"s","t","u","d","y">>]


\* The glosses of an entry with text: the native bucket (tagged zh, zho or
\* cmn) and the English bucket (a bare string, or tagged eng or not at all).
GlossesWithText(entry) ==
  { gloss \in Range(Flatten([i \in DOMAIN entry.sense |-> entry.sense[i].gloss])) :
      gloss.t \in {"string", "object"} /\ Trim(gloss.v) # <<>> }

NativeBucket(entry) ==
  { Trim(gloss.v) : gloss \in { g \in GlossesWithText(entry) :
                                  g.t = "object" /\ g.lang \in {"zh", "zho", "cmn"} } }

EnglishBucket(entry) ==
  { Trim(gloss.v) : gloss \in { g \in GlossesWithText(entry) :
                                  g.t = "string" \/ g.lang \in {"", "eng"} } }

StatedCrossLingual(entry, map) ==
  IF NativeBucket(entry) # {} THEN NativeBucket(entry)
  ELSE UNION { Range(translateGlossToChinese(gloss, map)) : gloss \in EnglishBucket(entry) }

\* C22: of the entries parseJmdict keeps (those with a primary word), exactly
\* the ones whose definition set is not empty give a cross-lingual entry, in
\* order: the set is the native bucket when that is not empty, else the
\* translations of all English glosses; the entry's definitions are the
\* members of the set, each once.
C22_CrossLingualDefinitions ==
  (probe.fn = "parseJmdict" /\ probe.out # None /\ ~probe.out[1].threw) =>
    LET data == probe.out[1].data[1]
        map == probe.in[2]
        kept == SelectSeq(probe.in[1], LAMBDA entry : JmPrimaryWord(entry) # <<>>)
        cross == SelectSeq(kept, LAMBDA entry : StatedCrossLingual(entry, map) # {})
    IN /\ DOMAIN data.jaZhEntries = DOMAIN cross
       /\ \A i \in DOMAIN cross :
            /\ data.jaZhEntries[i].word = JmPrimaryWord(cross[i])
            /\ Range(data.jaZhEntries[i].definitions) = StatedCrossLingual(cross[i], map)
            /\ Len(data.jaZhEntries[i].definitions) =
                 Cardinality(StatedCrossLingual(cross[i], map))

\* Two entries were parsed with a map that holds "thanks", "learn" and
\* "study": the first has a native gloss beside the English "thanks" and
\* keeps the native gloss alone, the second has two English glosses and gets
\* the translations of both.
C22_Witness ==
  /\ probe.fn = "parseJmdict" /\ probe.out # None /\ ~probe.out[1].threw
  /\ Len(probe.in[1]) = 2
  /\ <<"t","h","a","n","k","s">> \in DOMAIN probe.in[2]
  /\ Len(probe.out[1].data[1].jaZhEntries) = 2
  /\ probe.out[1].data[1].jaZhEntries[1].definitions = << <<"U+8C22","U+8C22">> >>
  /\ Range(probe.out[1].data[1].jaZhEntries[2].definitions) =
       {<<"U+5B66">>, <<"U+5B66","U+4E60">>, <<"U+5B78","U+7FD2">>}


\* The requested positions whose language is registered, whose build failed
\* and whose language has no ManifestEntry.
FailedWithoutEntry ==
  { i \in DOMAIN outcome :
      /\ outcome[i].status = "failed"
      /\ options.languages[i] \in Languages
      /\ \A k \in DOMAIN manifestEntries :
           manifestEntries[k].language # options.languages[i] }

\* C24: at the end of a run, the store and the snapshot of a language whose
\* build failed and that has no ManifestEntry are the files they were before
\* the run: none was created, replaced or removed.
C24_FailedBuildLeavesArtifacts ==
  pc = "done" =>
    \A i \in FailedWithoutEntry :
      /\ sqliteFs[options.languages[i]] = fs0.sqlite[options.languages[i]]
      /\ jsonFs[options.languages[i]] = fs0.json[options.languages[i]]

\* C24 where it does hold: a build that fails in its builder or at the
\* store's overwrite gate has touched neither file of its language, unless
\* another position of the list names the same language.
C24_EarlyFailureLeavesArtifacts ==
  pc = "done" =>
    \A i \in FailedWithoutEntry :
      (/\ \/ outcome[i].step = "builder"
          \/ outcome[i].step = "sqlite" /\ outcome[i].error = "conflict"
       /\ \A k \in DOMAIN options.languages :
            options.languages[k] = options.languages[i] => k = i) =>
        /\ sqliteFs[options.languages[i]] = fs0.sqlite[options.languages[i]]
        /\ jsonFs[options.languages[i]] = fs0.json[options.languages[i]]

\* A run without --force has ended in which a language with an old snapshot
\* and no store failed at the snapshot's overwrite gate: its store, written
\* just before, stays on disk without a ManifestEntry.
C24_OrphanStore ==
  /\ pc = "done" /\ ~options.force
  /\ \E i \in FailedWithoutEntry :
       /\ outcome[i].step = "gzip" /\ outcome[i].error = "conflict"
       /\ fs0.sqlite[options.languages[i]] = AbsentFile
       /\ sqliteFs[options.languages[i]].state = "written"


\* The manifest entries whose two files are on disk as this run wrote them.
EntriesOnDisk ==
  { k \in DOMAIN manifestEntries :
      /\ StoreWritten(manifestEntries[k].language)
      /\ SnapshotWritten(manifestEntries[k].language) }

C26_DownloadIsAtomic ==
  [][\A s \in Sources : rawFs'[s] \in {rawFs[s], "fresh"}]_vars

\* C26 where it does hold: without --force a complete archive in the raw
\* cache is never replaced or removed.
C26_UnforcedCacheKept ==
  [][\A s \in Sources :
       (~options.force /\ rawFs[s] \in {"stale", "fresh"}) => rawFs'[s] = rawFs[s]]_vars

\* A run without --force has ended in which two languages needed the sense
\* dump: the first download broke off and left a partial archive, and the
\* second language took that file as cached without fetching and failed to
\* parse it.
C26_PartialTakenAsCached ==
  /\ pc = "done" /\ ~options.force
  /\ Len(options.languages) = 2
  /\ \A i \in 1..2 : options.languages[i] \in {"en", "en-zh"}
  /\ rawFs["kaikki"] = "partial"
  /\ fetches["kaikki"] = 1
  /\ outcome[1].error = "acquisition"
  /\ outcome[2].error = "parse"


\* C27: when the manifest has been written, the store and snapshot checksums
\* of each of its entries are the hashes of the files then at those paths,
\* whatever the requested list is.
C27_ChecksumsMatchFiles ==
  (pc = "done" /\ manifestWrites = 1) =>
    \A k \in DOMAIN manifestFs.dictionaries :
      LET entry == manifestFs.dictionaries[k]
      IN /\ entry.sqliteSha256 = checksum(sqliteFs[entry.language])
         /\ entry.jsonSha256 = checksum(jsonFs[entry.language])

\* C27 where it does hold: for a list that names no language twice.
C27_DistinctLanguagesMatch ==
  (/\ pc = "done" /\ manifestWrites = 1
   /\ \A i, j \in DOMAIN options.languages :
        options.languages[i] = options.languages[j] => i = j) =>
    \A k \in DOMAIN manifestFs.dictionaries :
      LET entry == manifestFs.dictionaries[k]
      IN /\ entry.sqliteSha256 = checksum(sqliteFs[entry.language])
         /\ entry.jsonSha256 = checksum(jsonFs[entry.language])

\* A run with --force over a list that names one language twice has written
\* its manifest: the first position was recorded, the second removed the
\* store and failed to write it again, and the recorded checksum is that of
\* a file that is no longer there.
C27_StaleChecksum ==
  /\ pc = "done" /\ manifestWrites = 1 /\ options.force
  /\ Len(options.languages) = 2 /\ options.languages[1] = options.languages[2]
  /\ outcome[1].status = "recorded"
  /\ outcome[2].status = "failed" /\ outcome[2].step = "sqlite"
  /\ manifestFs.dictionaries[1].sqliteSha256 #
       checksum(sqliteFs[manifestFs.dictionaries[1].language])


\* The archive version a source is parsed from in a run: the cached one when
\* a complete archive is cached and --force is not set, else the remote one.
\* It is the same at every state of a run: without --force a cached archive
\* is never replaced and no step caches an older one, and with --force every
\* source is fetched before it is parsed.
VersionParsed(s) == IF ~options.force /\ rawFs[s] = "stale" THEN "stale" ELSE "fresh"

\* The entries of every language for every choice of archive versions, as
\* the parsers and builders give them when each source is parsed alone.
C28_EntriesOf ==
  [lang \in Languages |->
     [kaikki \in {"stale", "fresh"} |->
        [cedict \in {"stale", "fresh"} |->
           [jmdict \in {"stale", "fresh"} |->
              LET senseDump == parseKaikki(ArchiveContent("kaikki", kaikki))
                  flatText == parseCedict(ArchiveContent("cedict", cedict))
                  bilingual == parseJmdict(ArchiveContent("jmdict", jmdict),
                                           MergeMaps(senseDump.translationMap,
                                                     flatText.translationMap))
              IN BuilderResult(lang, [s \in Sources |->
                                        CASE s = "kaikki" -> Some(senseDump)
                                          [] s = "cedict" -> Some(flatText)
                                          [] s = "jmdict" -> Some(bilingual)]).entries]]]]

C28_EntriesFixedByArchives ==
  (options.mode = "production" /\ result # NoResult) =>
    result.entries =
      C28_EntriesOf[options.languages[idx]][VersionParsed("kaikki")][VersionParsed("cedict")][
        VersionParsed("jmdict")]

C28_VersionStable ==
  \A s \in Sources :
    (rawFs'[s] = "stale" /\ ~options.force) = (rawFs[s] = "stale" /\ ~options.force)

\* C28: the entries a production run produces for a language are fixed by
\* the language and the archives of its sources: they are the same whatever
\* other languages the list names and wherever in the list the language is.
C28_EntriesIndependent ==
  [](C28_EntriesFixedByArchives) /\ [][C28_VersionStable]_vars

\* ja-zh is built at the second position after en, which parsed the sense
\* dump before: its entries are those of a run that requests ja-zh alone.
C28_Witness ==
  /\ options.mode = "production"
  /\ options.languages = <<"en", "ja-zh">>
  /\ idx = 2 /\ pc = "sqlite"
  /\ result.entries # <<>>
  /\ parses["kaikki"] = 1


\* The sources a language's entries are derived from.
DerivedFrom(lang) ==
  CASE lang \in {"en", "en-zh"} -> {"kaikki"}
    [] lang = "zh" -> {"cedict"}
    [] lang = "ja" -> {"jmdict"}
    [] lang = "ja-zh" -> Sources

\* A step in which the builder of the current language fails on a source.
FailsOn(s) ==
  /\ pc = "build" /\ stack # <<>> /\ Head(stack).source = s
  /\ outcome'[idx].status = "failed"

\* C29: a language's build fails on the acquisition or the parse of a source
\* only when its entries are derived from that source.
C29_FailsOnlyOnOwnSource ==
  [][\A s \in Sources : FailsOn(s) => s \in DerivedFrom(options.languages[idx])]_vars

\* C29 for the languages whose builder loads one source: en and en-zh fail
\* on the sense dump only, zh on the flat text only.
C29_SingleSourceLanguages ==
  [][\A s \in Sources :
       (FailsOn(s) /\ options.languages[idx] # "ja") =>
         s \in DerivedFrom(options.languages[idx])]_vars

\* A run for ja alone has ended: the bilingual XML was fetched, the sense
\* dump could not be acquired, and ja failed.
C29_JaFailsOnSenseDump ==
  /\ pc = "done"
  /\ options.languages = <<"ja">> /\ options.mode = "production"
  /\ rawFs["jmdict"] = "fresh"
  /\ rawFs["kaikki"] = "absent" /\ fetches["kaikki"] = 1
  /\ outcome[1].status = "failed" /\ outcome[1].error = "acquisition"


\* C30: every ManifestEntry records an entry count of at least 1.
C30_CountAtLeastOne ==
  \A k \in DOMAIN manifestEntries : manifestEntries[k].entries >= 1

\* C30 for the check build does make: no language whose builder returned no
\* entry gets a file or a ManifestEntry, so every recorded language has an
\* entry in its snapshot.
C30_SnapshotNotEmpty ==
  /\ \A k \in DOMAIN manifestEntries :
       SnapshotWritten(manifestEntries[k].language) =>
         jsonFs[manifestEntries[k].language].content # <<>>
  /\ \A i \in DOMAIN outcome :
       (outcome[i].status = "empty" /\ ~options.force) =>
         /\ sqliteFs[options.languages[i]].state # "written"
         /\ jsonFs[options.languages[i]].state # "written"

\* The English dictionary of a cached older dump was recorded with a count
\* of 0: its one entry, "24/7", has no persistence key and no reading, so
\* the store has no row while the snapshot has the entry.
C30_EmptyStoreRecorded ==
  /\ pc = "done" /\ manifestWrites = 1
  /\ options.languages = <<"en">>
  /\ manifestFs.dictionaries[1].entries = 0
  /\ sqliteFs["en"] = WrittenFile(<<>>)
  /\ Len(jsonFs["en"].content) = 1


=============================================================================
